---- MODULE Spec2Model ----
(***************************************************************************)
(* Override resolution of the CPS catalog portal.                          *)
(*                                                                         *)
(* The state is the two tables the views read: the base catalog            *)
(* cps.cps_catalog_gold and the override log cps.user_input_cps_catalog.   *)
(* The two views v_cps_catalog_effective and                               *)
(* v_cps_catalog_effective_validated are operators over these tables.      *)
(* Text values are sequences of one-character strings, so that the empty   *)
(* string is <<>> and a cast of text to a number is computed digit by      *)
(* digit.                                                                  *)
(*                                                                         *)
(* The handlers behind POST /device/override and DELETE /changes/{id} are  *)
(* modelled as the design describes Append and Delete; the clients' calls  *)
(* are catalogAPI.commitOverride and catalogAPI.deleteChange.              *)
(*                                                                         *)
(* Spec is the catalog under appends, reverts and new base rows.           *)
(* SpecNumeric reads the risk_score column, whose view casts the selected  *)
(* text to numeric(4, 1), over any table of risk_score rows.               *)
(*                                                                         *)
(* SpecRead adds the reads of the views behind GET /device/{id} and        *)
(* GET /cps-id/{id}/variants.  SpecRename adds the migration that renames  *)
(* the field sub_category in the log.  SpecEditor is one FieldEditor of the*)
(* DeviceDetails page, SpecConcurrent two of them saving the same field.   *)
(* SpecAudit is the ChangesLog page and SpecChart the chart of the         *)
(* DeviceDetails page, each over any log.  SpecText reads the views over   *)
(* any table of text overrides, blank ones included.                       *)
(*                                                                         *)
(* SpecScope writes device-scope and group-scope entries over any log of   *)
(* a group of two devices.  SpecSave is a FieldEditor whose POST may fail  *)
(* on the way.  SpecDashboard is the search box of the CatalogDashboard    *)
(* with its timers.  SpecTable is a CVETable or PatchTable through edits   *)
(* of its rows and a save, with JSON.stringify and JSON.parse computed on  *)
(* characters.  SpecRevert is the revert dialog of the ChangesLog page in  *)
(* two clients.  SpecDetails is the DeviceDetails page with its loads,     *)
(* the saves of its field components and the Validated Only switch.        *)
(***************************************************************************)
EXTENDS Integers, Sequences, FiniteSets, TLC

VARIABLES cps_catalog_gold, user_input_cps_catalog, nextId, result, selected,
          assigned, device, variants, editors,
          allChanges, changes, dateRange, filters, changesOverTime,
          table, revert, dashboard, details

\* assigned is a history variable: the ids that successful appends have
\* returned so far, whether or not their rows are still in the table.

\* The state of the pages.  editors holds the FieldEditor components, one
\* for each browser session.
widgets == <<table, revert, dashboard, details>>

ui == <<device, variants, allChanges, changes, dateRange, filters,
        changesOverTime, widgets>>

vars ==
  <<cps_catalog_gold, user_input_cps_catalog, nextId, result, selected,
    assigned, ui, editors>>

(* ---------------------------------------------------------------- bounds *)

\* Number of ids the store hands out in a run.
MaxId == 2

\* Number of override rows in the tables the risk_score column is read from.
MaxRows == 2

\* Number of override rows in the tables the change history is read from.
MaxChanges == 3

\* Number of rows a CVETable or PatchTable holds at once.
MaxItems == 2

(* ------------------------------------------------------------- universe *)

Devices == {"d1", "d2"}

Groups == {"g1", "g2"}

\* Marks a device_uuid that has no row in cps_catalog_gold.
NoRow == "norow"

\* SQL NULL as produced by NULLIF and by an unmatched LEFT JOIN.
NULL == <<"NULL">>

EmptyText == <<>>

OT == <<"O", "T">>

IoT == <<"I", "o", "T">>

IT == <<"I", "T">>

Medical == <<"M", "e", "d">>

Acme == <<"A", "c", "m", "e">>

NotAnOption == <<"z", "z">>

Modes == {"effective", "effective_validated"}

\* Values of changed_at: an earlier and a later stamp.  The store stamps a
\* row with either, so rows have equal stamps, or stamps in the order of
\* their ids, or in the opposite order.
Times == {1, 2}

LatestStamp == CHOOSE t \in Times : \A o \in Times : o <= t

\* The columns of the views that the model resolves.
ViewFields == {"vendor", "category"}

\* Column values of the base rows (g.vendor, g.category).
BaseValue(d, f) ==
  IF f = "vendor" THEN Acme
  ELSE IF f = "potential_cves" THEN <<"a", ",", " ", "b">>
  ELSE IF f = "certified_patches"
    THEN <<"[", "{", "\"", "k", "b", "\"", ":", "\"", "a", "\"", ",",
           "\"", "l", "i", "n", "k", "\"", ":", "\"", "\"", "}", "]">>
  ELSE IF d = "d1" THEN IT ELSE Medical

(* ------------------------------------------------ Field Type Registry *)

\* Select options of the category field.
CategoryOptions == {OT, IoT, IT, Medical}

\* Fields the registry knows.  The column sub_category was renamed to
\* device_type; the registry knows the field under either name.
RegistryFields ==
  {"vendor", "category", "sub_category", "device_type", "potential_cves",
   "certified_patches"}

\* Fields that cannot be edited.
ProtectedFields == {"vendor"}

\* Coerce(field_name, raw_value) succeeds: blank clears, else an option.
CoerceOK(f, v) ==
  \/ v = EmptyText
  \/ f = "category" /\ v \in CategoryOptions
  \/ f \in {"vendor", "sub_category", "device_type", "potential_cves",
            "certified_patches"}

(* ------------------------------------------------------------- views *)

\* The CPS-ID-wide condition written as IS NULL.
GroupRows_NullOnly(L) == {u \in L : u.apply_for_all = "NULL"}

\* The boolean column apply_for_all holds "TRUE", "FALSE" or "NULL".
\* Rows of the override table that are device-specific.
DeviceRows(L) ==
  {u \in L : u.apply_for_all = "FALSE" \/ u.apply_for_all = "NULL"}

\* Rows of the override table that are CPS-ID-wide.
GroupRows(L) == {u \in L : u.apply_for_all = "TRUE"}

\* The ordering without its is_validated key.
OrderEffective_NewestFirst(a, b) ==
  \/ a.changed_at > b.changed_at
  \/ a.changed_at = b.changed_at /\ a.id > b.id

\* The ordering without its last key u.id: of two rows with equal
\* is_validated and changed_at either may be numbered first.
OrderEffective_NoIdTieBreak(a, b) ==
  \/ a.is_validated /\ ~b.is_validated
  \/ a.is_validated = b.is_validated /\ a.changed_at >= b.changed_at

\* The ordering with its first key ascending: unvalidated rows first.
OrderEffective_UnvalidatedFirst(a, b) ==
  \/ ~a.is_validated /\ b.is_validated
  \/ a.is_validated = b.is_validated /\ a.changed_at > b.changed_at
  \/ a.is_validated = b.is_validated /\ a.changed_at = b.changed_at /\ a.id > b.id

\* ORDER BY u.is_validated DESC, u.changed_at DESC, u.id DESC: a before b.
OrderEffective(a, b) ==
  \/ a.is_validated /\ ~b.is_validated
  \/ a.is_validated = b.is_validated /\ a.changed_at > b.changed_at
  \/ a.is_validated = b.is_validated /\ a.changed_at = b.changed_at /\ a.id > b.id

\* The ordering of the validated view written ascending.
OrderValidated_OldestFirst(a, b) ==
  \/ a.changed_at < b.changed_at
  \/ a.changed_at = b.changed_at /\ a.id < b.id

\* ORDER BY u.changed_at DESC, u.id DESC: a before b.
OrderValidated(a, b) ==
  \/ a.changed_at > b.changed_at
  \/ a.changed_at = b.changed_at /\ a.id > b.id

RowBefore(mode, a, b) ==
  IF mode = "effective" THEN OrderEffective(a, b) ELSE OrderValidated(a, b)

\* The rows of a window partition P with ROW_NUMBER() = 1.
Rn1(mode, P) == {a \in P : \A b \in P \ {a} : RowBefore(mode, a, b)}

\* The validated view without its is_validated = true condition.
ModeFilter_Unfiltered(mode, S) == S

\* WHERE clause of the CTE: the validated view adds is_validated = true.
ModeFilter(mode, S) ==
  IF mode = "effective" THEN S ELSE {u \in S : u.is_validated = TRUE}

\* latest_device with blank rows left out before the rows are numbered.
latest_device_NonBlank(L, mode, d, f) ==
  Rn1(mode, {u \in ModeFilter(mode, DeviceRows(L)) :
               u.device_uuid = d /\ u.field_name = f /\ u.new_value # EmptyText})

\* latest_device rows with rn = 1 joined to base row d on field f.
latest_device(L, mode, d, f) ==
  Rn1(mode, {u \in ModeFilter(mode, DeviceRows(L)) :
               u.device_uuid = d /\ u.field_name = f})

\* latest_cps_id joined to the base rows on field_name only: a CPS-ID-wide
\* row reaches the base rows of every cps_id.
latest_cps_id_AllGroups(G, L, mode, c, f) ==
  Rn1(mode, {u \in ModeFilter(mode, GroupRows(L)) :
               /\ G[u.device_uuid] # NoRow
               /\ u.field_name = f})

\* latest_cps_id rows with rn = 1 joined to a base row of group c on field f.
\* The CTE joins the override to the base row of the device it was
\* submitted on and partitions by that row's cps_id.
latest_cps_id(G, L, mode, c, f) ==
  Rn1(mode, {u \in ModeFilter(mode, GroupRows(L)) :
               /\ G[u.device_uuid] # NoRow
               /\ G[u.device_uuid] = c
               /\ u.field_name = f})

\* new_value of the joined row, NULL when the LEFT JOIN matched nothing.
JoinedValue(S) == IF S = {} THEN NULL ELSE (CHOOSE u \in S : TRUE).new_value

\* NULLIF that keeps the empty string.
NULLIF_KeepEmpty(v, w) == v

NULLIF(v, w) == IF v = w THEN NULL ELSE v

\* COALESCE with the CPS-ID-wide value listed before the device value.
COALESCE_GroupFirst(a, b, c) ==
  IF b # NULL THEN b ELSE IF a # NULL THEN a ELSE c

COALESCE(a, b, c) == IF a # NULL THEN a ELSE IF b # NULL THEN b ELSE c

\* The view with CPS-ID-wide rows joined on the submitting device only.
ViewColumn_SubmitterOnly(G, L, mode, d, f) ==
  COALESCE(NULLIF(JoinedValue(latest_device(L, mode, d, f)), EmptyText),
           NULLIF(JoinedValue({u \in latest_cps_id(G, L, mode, G[d], f) :
                                 u.device_uuid = d}), EmptyText),
           BaseValue(d, f))

\* One column of one row of the view for base row d.
ViewColumn(G, L, mode, d, f) ==
  COALESCE(NULLIF(JoinedValue(latest_device(L, mode, d, f)), EmptyText),
           NULLIF(JoinedValue(latest_cps_id(G, L, mode, G[d], f)), EmptyText),
           BaseValue(d, f))

v_cps_catalog_effective(G, L, d, f) == ViewColumn(G, L, "effective", d, f)

v_cps_catalog_effective_validated(G, L, d, f) ==
  ViewColumn(G, L, "effective_validated", d, f)

\* ResolveField over given tables.
ResolveIn(G, L, d, f, mode) ==
  IF mode = "effective" THEN v_cps_catalog_effective(G, L, d, f)
  ELSE v_cps_catalog_effective_validated(G, L, d, f)

\* ResolveField over the current tables.
ResolveField(d, f, mode) ==
  ResolveIn(cps_catalog_gold, user_input_cps_catalog, d, f, mode)

Present == {d \in Devices : cps_catalog_gold[d] # NoRow}

\* new_value of the rows a LEFT JOIN matched, NULL when it matched none.
JoinedValues(S) == IF S = {} THEN {NULL} ELSE {u.new_value : u \in S}

\* The view created as a materialized view while the override table was
\* empty, and not refreshed.
ViewRows_Materialized(G, L, mode, d) ==
  {[device_uuid |-> d, cps_id |-> G[d],
    vendor |-> BaseValue(d, "vendor"), category |-> BaseValue(d, "category")]}

\* The rows of the view for base row d: one for each combination of rows
\* that the LEFT JOINs match.
ViewRows(G, L, mode, d) ==
  {[device_uuid |-> d, cps_id |-> G[d],
    vendor |-> COALESCE(NULLIF(vd, EmptyText), NULLIF(vc, EmptyText),
                        BaseValue(d, "vendor")),
    category |-> COALESCE(NULLIF(cd, EmptyText), NULLIF(cc, EmptyText),
                          BaseValue(d, "category"))] :
   vd \in JoinedValues(latest_device(L, mode, d, "vendor")),
   vc \in JoinedValues(latest_cps_id(G, L, mode, G[d], "vendor")),
   cd \in JoinedValues(latest_device(L, mode, d, "category")),
   cc \in JoinedValues(latest_cps_id(G, L, mode, G[d], "category"))}

\* The view a request reads: validated_only selects the validated view.
ModeOf(validatedOnly) ==
  IF validatedOnly THEN "effective_validated" ELSE "effective"

(* ------------------------------------- risk_score and its numeric cast *)

Digits == {"0", "1", "2", "3", "4", "5", "6", "7", "8", "9"}

DigitValue(c) ==
  CASE c = "0" -> 0 [] c = "1" -> 1 [] c = "2" -> 2 [] c = "3" -> 3
    [] c = "4" -> 4 [] c = "5" -> 5 [] c = "6" -> 6 [] c = "7" -> 7
    [] c = "8" -> 8 [] c = "9" -> 9

RECURSIVE DigitsValue(_)
\* Value of a sequence of digits, 0 for the empty sequence.
DigitsValue(s) ==
  IF s = <<>> THEN 0
  ELSE DigitsValue(SubSeq(s, 1, Len(s) - 1)) * 10 + DigitValue(s[Len(s)])

AllDigits(s) == \A i \in 1..Len(s) : s[i] \in Digits

\* Position of the first "." of s, Len(s) + 1 if there is none.
DotAt(s) ==
  IF \E i \in 1..Len(s) : s[i] = "."
    THEN CHOOSE i \in 1..Len(s) : s[i] = "." /\ \A j \in 1..(i - 1) : s[j] # "."
    ELSE Len(s) + 1

\* Largest magnitude, in tenths, that numeric(4, 1) holds: 999.9.
MaxTenths == 9999

\* text::numeric(4, 1) of unsigned decimal text: the value in tenths, rounded
\* half up on the second decimal, or an error for text that is no number
\* ("invalid input syntax") or that does not fit ("numeric field overflow").
CastNumeric41(s) ==
  LET dot  == DotAt(s)
      ip   == SubSeq(s, 1, dot - 1)
      fp   == SubSeq(s, dot + 1, Len(s))
      d1   == IF Len(fp) >= 1 THEN DigitValue(fp[1]) ELSE 0
      d2   == IF Len(fp) >= 2 THEN DigitValue(fp[2]) ELSE 0
      t    == DigitsValue(ip) * 10 + d1 + (IF d2 >= 5 THEN 1 ELSE 0)
  IN IF ~AllDigits(ip) \/ ~AllDigits(fp) \/ Len(ip) + Len(fp) = 0
       THEN [ok |-> FALSE, tenths |-> 0]
       ELSE IF t > MaxTenths THEN [ok |-> FALSE, tenths |-> 0]
       ELSE [ok |-> TRUE, tenths |-> t]

\* g.risk_score::text of the base rows.
BaseRiskScore(d) == IF d = "d1" THEN <<"5", ".", "0">> ELSE <<"2", ".", "5">>

\* latest_cps_id of the view that has the risk_score column: it partitions
\* by the cps_id column of the override row itself.
latest_cps_id_by_row(L, mode, c, f) ==
  Rn1(mode, {u \in ModeFilter(mode, GroupRows(L)) :
               u.cps_id = c /\ u.field_name = f})

\* The text the COALESCE of the risk_score column selects.
risk_score_text(G, L, mode, d) ==
  COALESCE(NULLIF(JoinedValue(latest_device(L, mode, d, "risk_score")), EmptyText),
           NULLIF(JoinedValue(latest_cps_id_by_row(L, mode, G[d], "risk_score")),
                  EmptyText),
           BaseRiskScore(d))

\* The risk_score column: the selected text cast to numeric(4, 1).
risk_score(G, L, mode, d) == CastNumeric41(risk_score_text(G, L, mode, d))

(* ------------------------------------------------------------ actions *)

\* No request body: the operation was not an append.
NoReq == [field_name |-> "none", new_value |-> EmptyText]

\* What an operation answered; for an append also the field and value sent.
RetReq(op, id, status, f, v) ==
  [op |-> op, id |-> id, status |-> status,
   req |-> [field_name |-> f, new_value |-> v]]

Ret(op, id, status) == [op |-> op, id |-> id, status |-> status, req |-> NoReq]

\* A row of no view.
NoData == [device_uuid |-> NoRow, cps_id |-> NoRow, vendor |-> NULL, category |-> NULL]

\* No GET /device/{id} has been answered.
NoDevice == [device_uuid |-> NoRow, validated_only |-> FALSE, data |-> NoData]

\* No GET /cps-id/{id}/variants has been answered.
NoVariants == [cps_id |-> NoRow, validated_only |-> FALSE, items |-> {}]

\* Browser sessions, each with a FieldEditor on the page of device d1.
Sessions == {"s1", "s2"}

\* No request body of a FieldEditor.
NoPost == [field_name |-> "none", new_value |-> EmptyText, apply_for_all |-> FALSE]

\* No answer to a POST.
NoResponse ==
  [op |-> "none", id |-> 0, status |-> "none",
   req |-> [field_name |-> "none", new_value |-> EmptyText]]

\* error is null.
NoError == "null"

\* The parent's onSave has not been called in the save under way.
NoCall == [fieldName |-> "none", value |-> EmptyText]

\* A FieldEditor that is not on the page.
Unmounted ==
  [pc |-> "unmounted", fieldName |-> "none", deviceUuid |-> NoRow,
   currentValue |-> NULL, value |-> EmptyText, originalValue |-> EmptyText,
   isSaving |-> FALSE, applyForAll |-> FALSE, request |-> NoPost,
   response |-> NoResponse, error |-> NoError, success |-> FALSE,
   onSave |-> NoCall]

NoEditors == [s \in Sessions |-> Unmounted]

\* No day chosen in the date range picker.
NoDate == 0

\* The filters of the ChangesLog page as it mounts: none is active.
NoFilters ==
  [editor |-> EmptyText, field_name |-> EmptyText, vendor |-> EmptyText,
   apply_for_all |-> "NULL"]

\* The ChangesLog page before its first load.
InitChangesLog ==
  /\ allChanges = <<>>
  /\ changes = <<>>
  /\ dateRange = [from |-> NoDate, to |-> NoDate]
  /\ filters = NoFilters

\* No CVETable or PatchTable is on the page.
NoTable == [pc |-> "unmounted"]

\* No ChangesLog page has its revert dialog in use.
NoRevert == [s \in Sessions |-> [pc |-> "unmounted"]]

\* No CatalogDashboard is on the page.
NoDashboard == [pc |-> "unmounted"]

\* No DeviceDetails page is loading.
NoDetails == [pc |-> "unmounted"]

InitWidgets ==
  /\ table = NoTable
  /\ revert = NoRevert
  /\ dashboard = NoDashboard
  /\ details = NoDetails

\* The pages' state that the DeviceDetails reads leave alone.
pages == <<allChanges, changes, dateRange, filters, changesOverTime, widgets>>

\* The clients before any request.
InitUI ==
  /\ device = NoDevice
  /\ variants = NoVariants
  /\ editors = NoEditors
  /\ InitChangesLog
  /\ changesOverTime = <<>>
  /\ InitWidgets

\* No SELECT on the risk_score column has been made.
NoSelect == [device_uuid |-> NoRow, mode |-> "none", status |-> "none", tenths |-> 0]

Init ==
  /\ cps_catalog_gold = [d \in Devices |-> IF d = "d1" THEN "g1" ELSE NoRow]
  /\ user_input_cps_catalog = {}
  /\ nextId = 1
  /\ assigned = {}
  /\ result = Ret("none", 0, "none")
  /\ selected = NoSelect
  /\ InitUI

\* The ETL adds a base row for device d with group c.  Base rows are
\* immutable for the engine: a row, once present, keeps its cps_id and is
\* never removed.
AddDevice(d, c) ==
  /\ cps_catalog_gold[d] = NoRow
  /\ cps_catalog_gold' = [cps_catalog_gold EXCEPT ![d] = c]
  /\ result' = Ret("AddDevice", 0, "Success")
  /\ UNCHANGED <<user_input_cps_catalog, nextId, assigned, editors, selected, ui>>

\* The transaction of commit_override on the tables and its answer:
\* validate against the registry, then insert one row with the next id; the
\* store stamps changed_at.
commitOverride_Rows(d, f, v, val, afa) ==
  /\ d \in Present
  /\ IF f \notin RegistryFields \/ f \in ProtectedFields
       THEN /\ result' = RetReq("commitOverride", 0, "InvalidField", f, v)
            /\ UNCHANGED <<user_input_cps_catalog, nextId, assigned>>
       ELSE IF ~CoerceOK(f, v)
         THEN /\ result' = RetReq("commitOverride", 0, "InvalidValue", f, v)
              /\ UNCHANGED <<user_input_cps_catalog, nextId, assigned>>
         ELSE /\ nextId <= MaxId
              /\ \E t \in Times :
                   user_input_cps_catalog' = user_input_cps_catalog \cup
                     {[id |-> nextId, device_uuid |-> d,
                       cps_id |-> cps_catalog_gold[d], field_name |-> f,
                       new_value |-> v, is_validated |-> val,
                       apply_for_all |-> afa, changed_at |-> t]}
              /\ nextId' = nextId + 1
              /\ assigned' = assigned \cup {nextId}
              /\ result' = RetReq("commitOverride", nextId, "Success", f, v)

\* An insert that does not look at the registry's protected flag.
commitOverride_NoProtection(d, f, v, val, afa) ==
  /\ d \in Present
  /\ IF ~CoerceOK(f, v)
       THEN /\ result' = RetReq("commitOverride", 0, "InvalidValue", f, v)
            /\ UNCHANGED <<user_input_cps_catalog, nextId, assigned>>
       ELSE /\ nextId <= MaxId
            /\ \E t \in Times :
                 user_input_cps_catalog' = user_input_cps_catalog \cup
                   {[id |-> nextId, device_uuid |-> d,
                     cps_id |-> cps_catalog_gold[d], field_name |-> f,
                     new_value |-> v, is_validated |-> val,
                     apply_for_all |-> afa, changed_at |-> t]}
            /\ nextId' = nextId + 1
            /\ assigned' = assigned \cup {nextId}
            /\ result' = RetReq("commitOverride", nextId, "Success", f, v)
  /\ UNCHANGED <<cps_catalog_gold, selected, ui>>

\* A write that keeps one current row for each device, field and scope: it
\* replaces the row that is there.
commitOverride_Upsert(d, f, v, val, afa) ==
  /\ d \in Present
  /\ IF f \notin RegistryFields \/ f \in ProtectedFields
       THEN /\ result' = RetReq("commitOverride", 0, "InvalidField", f, v)
            /\ UNCHANGED <<user_input_cps_catalog, nextId, assigned>>
       ELSE IF ~CoerceOK(f, v)
         THEN /\ result' = RetReq("commitOverride", 0, "InvalidValue", f, v)
              /\ UNCHANGED <<user_input_cps_catalog, nextId, assigned>>
         ELSE /\ nextId <= MaxId
              /\ \E t \in Times :
                   user_input_cps_catalog' =
                     {u \in user_input_cps_catalog :
                        ~(u.device_uuid = d /\ u.field_name = f
                          /\ u.apply_for_all = afa)}
                     \cup
                     {[id |-> nextId, device_uuid |-> d,
                       cps_id |-> cps_catalog_gold[d], field_name |-> f,
                       new_value |-> v, is_validated |-> val,
                       apply_for_all |-> afa, changed_at |-> t]}
              /\ nextId' = nextId + 1
              /\ assigned' = assigned \cup {nextId}
              /\ result' = RetReq("commitOverride", nextId, "Success", f, v)
  /\ UNCHANGED <<cps_catalog_gold, selected, ui>>

\* An insert that numbers the row one above the greatest id in the table.
commitOverride_MaxPlusOne(d, f, v, val, afa) ==
  /\ d \in Present
  /\ IF f \notin RegistryFields \/ f \in ProtectedFields
       THEN /\ result' = RetReq("commitOverride", 0, "InvalidField", f, v)
            /\ UNCHANGED <<user_input_cps_catalog, nextId, assigned>>
       ELSE IF ~CoerceOK(f, v)
         THEN /\ result' = RetReq("commitOverride", 0, "InvalidValue", f, v)
              /\ UNCHANGED <<user_input_cps_catalog, nextId, assigned>>
         ELSE LET ids == {u.id : u \in user_input_cps_catalog}
                  new == IF ids = {} THEN 1
                         ELSE 1 + CHOOSE m \in ids : \A o \in ids : o <= m
              IN /\ nextId <= MaxId
                 /\ \E t \in Times :
                      user_input_cps_catalog' = user_input_cps_catalog \cup
                        {[id |-> new, device_uuid |-> d,
                          cps_id |-> cps_catalog_gold[d], field_name |-> f,
                          new_value |-> v, is_validated |-> val,
                          apply_for_all |-> afa, changed_at |-> t]}
                 /\ nextId' = nextId + 1
                 /\ assigned' = assigned \cup {new}
                 /\ result' = RetReq("commitOverride", new, "Success", f, v)
  /\ UNCHANGED <<cps_catalog_gold, selected, ui>>

\* POST /device/override, with nothing else on its way.
commitOverride(d, f, v, val, afa) ==
  /\ commitOverride_Rows(d, f, v, val, afa)
  /\ UNCHANGED <<cps_catalog_gold, selected, ui>>

\* A delete that answers Success whether or not the entry is there.
deleteChange_Rows_Idempotent(i) ==
  /\ user_input_cps_catalog' = {u \in user_input_cps_catalog : u.id # i}
  /\ result' = Ret("deleteChange", i, "Success")

\* The transaction of the delete on the log and its answer: the entry with
\* id i is removed, and NotFound is answered when there is none.
deleteChange_Rows(i) ==
  /\ IF \E u \in user_input_cps_catalog : u.id = i
       THEN /\ user_input_cps_catalog' =
                 {u \in user_input_cps_catalog : u.id # i}
            /\ result' = Ret("deleteChange", i, "Success")
       ELSE /\ result' = Ret("deleteChange", i, "NotFound")
            /\ UNCHANGED user_input_cps_catalog

\* A delete that removes every override of the entry's device and field.
deleteChange_WholeField(i) ==
  /\ IF \E u \in user_input_cps_catalog : u.id = i
       THEN /\ user_input_cps_catalog' =
                 {u \in user_input_cps_catalog :
                    \A e \in user_input_cps_catalog :
                      e.id = i => (u.device_uuid # e.device_uuid
                                   \/ u.field_name # e.field_name)}
            /\ result' = Ret("deleteChange", i, "Success")
       ELSE /\ result' = Ret("deleteChange", i, "NotFound")
            /\ UNCHANGED user_input_cps_catalog
  /\ UNCHANGED <<cps_catalog_gold, nextId, assigned, editors, selected, ui>>

\* A delete that reports success for an id that is not in the log.
deleteChange_AlwaysSuccess(i) ==
  /\ user_input_cps_catalog' = {u \in user_input_cps_catalog : u.id # i}
  /\ result' = Ret("deleteChange", i, "Success")
  /\ UNCHANGED <<cps_catalog_gold, nextId, assigned, editors, selected, ui>>

\* DELETE /changes/{id}.
deleteChange(i) ==
  /\ deleteChange_Rows(i)
  /\ UNCHANGED <<cps_catalog_gold, nextId, assigned, editors, selected, ui>>

\* Request bodies the clients send: every accepted combination, and one
\* request for each way of being rejected.
Accepted ==
  [device_uuid : Devices, field_name : {"category"},
   new_value : {EmptyText, OT, IoT}, is_validated : BOOLEAN,
   apply_for_all : {"TRUE", "FALSE"}]

Rejected ==
  [device_uuid : Devices, field_name : {"vendor", "bogus"},
   new_value : {OT}, is_validated : {FALSE}, apply_for_all : {"FALSE"}]
  \cup
  [device_uuid : Devices, field_name : {"category"},
   new_value : {NotAnOption}, is_validated : {FALSE}, apply_for_all : {"FALSE"}]

Payloads == Accepted \cup Rejected

Next ==
  \/ \E d \in Devices, c \in Groups : AddDevice(d, c)
  \/ \E p \in Payloads :
        /\ commitOverride(p.device_uuid, p.field_name, p.new_value,
                          p.is_validated, p.apply_for_all)
        /\ UNCHANGED editors
  \/ \E i \in 1..MaxId : deleteChange(i)

Spec == Init /\ [][Next]_vars

(* ---------------------------------------------- reads of the views *)

\* GET /device/{id}?validated_only: one row of the view for the device.
\* The page that asks is DeviceDetails; the router shows one page at a time,
\* so the state of GroupChooser is gone.
getDevice(d, validatedOnly) ==
  /\ IF d \in Present
       THEN /\ \E row \in ViewRows(cps_catalog_gold, user_input_cps_catalog,
                                   ModeOf(validatedOnly), d) :
                 device' = [device_uuid |-> d, validated_only |-> validatedOnly,
                            data |-> row]
            /\ result' = Ret("getDevice", 0, "Success")
       ELSE /\ result' = Ret("getDevice", 0, "NotFound")
            /\ UNCHANGED device
  /\ variants' = NoVariants
  /\ UNCHANGED pages
  /\ UNCHANGED <<cps_catalog_gold, user_input_cps_catalog, nextId, assigned,
                 editors, selected>>

\* GET /cps-id/{id}/variants?validated_only: a row of the view for each base
\* row of the group.  The page that asks is GroupChooser.
getVariants(c, validatedOnly) ==
  /\ LET members == {d \in Present : cps_catalog_gold[d] = c}
         rows(d) == ViewRows(cps_catalog_gold, user_input_cps_catalog,
                             ModeOf(validatedOnly), d)
     IN \E pick \in [members -> UNION {rows(d) : d \in members}] :
          /\ \A d \in members : pick[d] \in rows(d)
          /\ variants' = [cps_id |-> c, validated_only |-> validatedOnly,
                          items |-> {pick[d] : d \in members}]
  /\ result' = Ret("getVariants", 0, "Success")
  /\ device' = NoDevice
  /\ UNCHANGED pages
  /\ UNCHANGED <<cps_catalog_gold, user_input_cps_catalog, nextId, assigned,
                 editors, selected>>

\* Both devices are variants of one product.
InitRead ==
  /\ cps_catalog_gold = [d \in Devices |-> "g1"]
  /\ user_input_cps_catalog = {}
  /\ nextId = 1
  /\ assigned = {}
  /\ result = Ret("none", 0, "none")
  /\ selected = NoSelect
  /\ InitUI

\* Requests of an editor working on device d1.
ReadPayloads ==
  [device_uuid : {"d1"}, field_name : {"category"}, new_value : {OT, IoT},
   is_validated : BOOLEAN, apply_for_all : {"TRUE", "FALSE"}]

NextRead ==
  \/ \E p \in ReadPayloads :
        /\ commitOverride(p.device_uuid, p.field_name, p.new_value,
                          p.is_validated, p.apply_for_all)
        /\ UNCHANGED editors
  \/ \E i \in 1..MaxId : deleteChange(i)
  \/ \E d \in Devices, validatedOnly \in BOOLEAN : getDevice(d, validatedOnly)
  \/ \E c \in {"g1"}, validatedOnly \in BOOLEAN : getVariants(c, validatedOnly)

\* The catalog under appends, reverts and reads of devices and variants.
SpecRead == InitRead /\ [][NextRead]_vars

(* -------------------------------------------------------- FieldEditor *)

NON_EDITABLE_FIELDS ==
  {"vendor", "model", "cps_id", "cps_vector", "hw_versions", "sw_versions",
   "os_names", "os_versions", "os_revisions"}

RECURSIVE TrimStart(_)
TrimStart(s) ==
  IF s # <<>> /\ Head(s) = " " THEN TrimStart(Tail(s)) ELSE s

RECURSIVE TrimEnd(_)
TrimEnd(s) ==
  IF s # <<>> /\ s[Len(s)] = " " THEN TrimEnd(SubSeq(s, 1, Len(s) - 1)) ELSE s

\* String.prototype.trim, for blanks.
Trim(s) == TrimEnd(TrimStart(s))

RECURSIVE LeadingDigits(_)
\* Number of digits s starts with.
LeadingDigits(s) ==
  IF s # <<>> /\ Head(s) \in Digits THEN 1 + LeadingDigits(Tail(s)) ELSE 0

RECURSIVE StripZerosStart(_)
StripZerosStart(s) ==
  IF Len(s) > 1 /\ Head(s) = "0" THEN StripZerosStart(Tail(s)) ELSE s

RECURSIVE StripZerosEnd(_)
StripZerosEnd(s) ==
  IF s # <<>> /\ s[Len(s)] = "0" THEN StripZerosEnd(SubSeq(s, 1, Len(s) - 1)) ELSE s

\* parseFloat of unsigned decimal text followed by String(): the longest
\* prefix digits[.digits] is the number, printed without leading zeros and
\* without trailing zeros of the fraction; ok is FALSE for NaN.
ParseFloatText(str) ==
  LET n  == LeadingDigits(str)
      r  == SubSeq(str, n + 1, Len(str))
      m  == IF r # <<>> /\ Head(r) = "." THEN LeadingDigits(Tail(r)) ELSE 0
      ip == IF n = 0 THEN <<"0">> ELSE StripZerosStart(SubSeq(str, 1, n))
      fp == StripZerosEnd(SubSeq(r, 2, m + 1))
  IN IF n = 0 /\ m = 0 THEN [ok |-> FALSE, text |-> <<>>]
     ELSE [ok |-> TRUE, text |-> IF fp = <<>> THEN ip ELSE ip \o <<".">> \o fp]

\* normalizeValue for the text that text inputs and selects hold.
normalizeValue(val) ==
  IF val = NULL THEN EmptyText
  ELSE LET str == Trim(val)
           num == ParseFloatText(str)
       IN IF num.ok THEN num.text ELSE str

\* currentValue || ''.
OrEmpty(v) == IF v = NULL THEN EmptyText ELSE v

\* A text input that is not disabled for the fields in nonEditableFields.
isReadOnly_Never(e) == FALSE

isReadOnly(e) == e.fieldName \in NON_EDITABLE_FIELDS

hasChanged(e) == normalizeValue(e.value) # normalizeValue(e.originalValue)

\* The component as it is mounted for field f of device d with value cv.
Mounted(d, f, cv) ==
  [pc |-> "idle", fieldName |-> f, deviceUuid |-> d,
   currentValue |-> cv, value |-> OrEmpty(cv), originalValue |-> OrEmpty(cv),
   isSaving |-> FALSE, applyForAll |-> FALSE, request |-> NoPost,
   response |-> NoResponse, error |-> NoError, success |-> FALSE,
   onSave |-> NoCall]

\* The frame of a step of the component alone.
ServerUnchanged ==
  UNCHANGED <<cps_catalog_gold, user_input_cps_catalog, nextId, assigned,
              result, selected, ui>>

\* onChange of the input: the input is disabled when isReadOnly or isSaving.
onChange(s, v) ==
  /\ editors[s].pc # "unmounted"
  /\ ~(isReadOnly(editors[s]) \/ editors[s].isSaving)
  /\ editors' = [editors EXCEPT ![s].value = v]
  /\ ServerUnchanged

\* The checkbox "Apply to all devices with CPS-ID", shown when hasChanged and
\* not isReadOnly.
setApplyForAll(s, b) ==
  /\ editors[s].pc # "unmounted"
  /\ hasChanged(editors[s]) /\ ~isReadOnly(editors[s])
  /\ editors' = [editors EXCEPT ![s].applyForAll = b]
  /\ ServerUnchanged

\* A click on Save, shown when hasChanged and not isReadOnly, disabled when
\* isSaving: handleSave up to the POST.
handleSave(s) ==
  /\ editors[s].pc # "unmounted"
  /\ hasChanged(editors[s]) /\ ~isReadOnly(editors[s]) /\ ~editors[s].isSaving
  /\ IF ~hasChanged(editors[s])
       THEN UNCHANGED editors
       ELSE editors' =
              [editors EXCEPT
                 ![s].isSaving = TRUE,
                 ![s].error = NoError,
                 ![s].success = FALSE,
                 ![s].onSave = NoCall,
                 ![s].pc = "posting",
                 ![s].request = [field_name |-> editors[s].fieldName,
                                 new_value |-> editors[s].value,
                                 apply_for_all |-> editors[s].applyForAll]]
  /\ ServerUnchanged

\* The server handles the POST of session s.  The body has no is_validated,
\* which defaults to false.
postOverride(s) ==
  /\ editors[s].pc = "posting"
  /\ commitOverride(editors[s].deviceUuid, editors[s].request.field_name,
                    editors[s].request.new_value, FALSE,
                    IF editors[s].request.apply_for_all THEN "TRUE" ELSE "FALSE")
  /\ editors' = [editors EXCEPT ![s].pc = "answered",
                                ![s].response = result']

\* The POST of session s fails on its way: axios throws, and the log is as
\* it was.
postThrows(s) ==
  /\ editors[s].pc = "posting"
  /\ editors' = [editors EXCEPT
                   ![s].pc = "answered",
                   ![s].response = RetReq("commitOverride", 0, "NetworkError",
                                          editors[s].request.field_name,
                                          editors[s].request.new_value)]
  /\ ServerUnchanged

\* handleSave after the await that treats every answer as a success.
handleSaveDone_AlwaysCommit(s) ==
  /\ editors[s].pc = "answered"
  /\ editors' =
       [editors EXCEPT
          ![s].pc = "idle",
          ![s].isSaving = FALSE,
          ![s].originalValue = editors[s].request.new_value,
          ![s].success = TRUE,
          ![s].onSave = [fieldName |-> editors[s].fieldName,
                         value |-> editors[s].request.new_value]]
  /\ ServerUnchanged

\* handleSave after the await: on success setOriginalValue(value) with the
\* value the click saw, setSuccess(true) and onSave(fieldName, value); on
\* success = false or a throw setError; then setIsSaving(false).
handleSaveDone(s) ==
  /\ editors[s].pc = "answered"
  /\ editors' =
       IF editors[s].response.status = "Success"
         THEN [editors EXCEPT
                 ![s].pc = "idle",
                 ![s].isSaving = FALSE,
                 ![s].originalValue = editors[s].request.new_value,
                 ![s].success = TRUE,
                 ![s].onSave = [fieldName |-> editors[s].fieldName,
                                value |-> editors[s].request.new_value]]
         ELSE [editors EXCEPT
                 ![s].pc = "idle",
                 ![s].isSaving = FALSE,
                 ![s].error = editors[s].response.status]
  /\ ServerUnchanged

\* A click on Cancel, shown and enabled with Save.
handleCancel(s) ==
  /\ editors[s].pc # "unmounted"
  /\ hasChanged(editors[s]) /\ ~isReadOnly(editors[s]) /\ ~editors[s].isSaving
  /\ editors' = [editors EXCEPT ![s].value = editors[s].originalValue,
                                ![s].error = NoError,
                                ![s].success = FALSE,
                                ![s].applyForAll = FALSE]
  /\ ServerUnchanged

\* The parent renders the component with another currentValue: the effect
\* on [currentValue, fieldType] sets value and originalValue.
propUpdate(s, cv) ==
  /\ editors[s].pc # "unmounted"
  /\ cv # editors[s].currentValue
  /\ editors' = [editors EXCEPT ![s].currentValue = cv,
                                ![s].value = OrEmpty(cv),
                                ![s].originalValue = OrEmpty(cv),
                                ![s].error = NoError,
                                ![s].success = FALSE]
  /\ ServerUnchanged

\* Values a user enters and values the parent passes.
EditorValues == {EmptyText, OT, IoT}

PropValues == {NULL, OT, Acme}

\* Session s1 has a FieldEditor for vendor or for category of device d1.
InitEditor ==
  /\ cps_catalog_gold = [d \in Devices |-> IF d = "d1" THEN "g1" ELSE NoRow]
  /\ user_input_cps_catalog = {}
  /\ nextId = 1
  /\ assigned = {}
  /\ result = Ret("none", 0, "none")
  /\ selected = NoSelect
  /\ device = NoDevice
  /\ variants = NoVariants
  /\ InitChangesLog
  /\ changesOverTime = <<>>
  /\ InitWidgets
  /\ \E f \in {"vendor", "category"} :
       editors = [s \in Sessions |->
                    IF s = "s1" THEN Mounted("d1", f, BaseValue("d1", f))
                    ELSE Unmounted]

NextEditor ==
  \/ \E s \in Sessions, v \in EditorValues : onChange(s, v)
  \/ \E s \in Sessions, b \in BOOLEAN : setApplyForAll(s, b)
  \/ \E s \in Sessions : handleSave(s)
  \/ \E s \in Sessions : postOverride(s)
  \/ \E s \in Sessions : handleSaveDone(s)
  \/ \E s \in Sessions : handleCancel(s)
  \/ \E s \in Sessions, cv \in PropValues : propUpdate(s, cv)

\* One FieldEditor under user events, prop updates and its own saves.
SpecEditor == InitEditor /\ [][NextEditor]_vars

\* Session s1 has a FieldEditor for category of device d1; the user also
\* enters a value the registry rejects, and a request may fail on its way.
InitSave ==
  /\ cps_catalog_gold = [d \in Devices |-> IF d = "d1" THEN "g1" ELSE NoRow]
  /\ user_input_cps_catalog = {}
  /\ nextId = 1
  /\ assigned = {}
  /\ result = Ret("none", 0, "none")
  /\ selected = NoSelect
  /\ device = NoDevice
  /\ variants = NoVariants
  /\ InitChangesLog
  /\ changesOverTime = <<>>
  /\ InitWidgets
  /\ editors = [s \in Sessions |->
                  IF s = "s1"
                    THEN Mounted("d1", "category", BaseValue("d1", "category"))
                    ELSE Unmounted]

NextSave ==
  \/ \E s \in Sessions, v \in {EmptyText, OT, NotAnOption} : onChange(s, v)
  \/ \E s \in Sessions, b \in BOOLEAN : setApplyForAll(s, b)
  \/ \E s \in Sessions : handleSave(s)
  \/ \E s \in Sessions : postOverride(s)
  \/ \E s \in Sessions : postThrows(s)
  \/ \E s \in Sessions : handleSaveDone(s)
  \/ \E s \in Sessions : handleCancel(s)

\* One FieldEditor whose saves succeed, are rejected or fail on their way.
SpecSave == InitSave /\ [][NextSave]_vars

\* Two sessions have a FieldEditor for category of device d1.
InitConcurrent ==
  /\ cps_catalog_gold = [d \in Devices |-> IF d = "d1" THEN "g1" ELSE NoRow]
  /\ user_input_cps_catalog = {}
  /\ nextId = 1
  /\ assigned = {}
  /\ result = Ret("none", 0, "none")
  /\ selected = NoSelect
  /\ device = NoDevice
  /\ variants = NoVariants
  /\ InitChangesLog
  /\ changesOverTime = <<>>
  /\ InitWidgets
  /\ editors = [s \in Sessions |->
                  Mounted("d1", "category", BaseValue("d1", "category"))]

NextConcurrent ==
  \/ \E s \in Sessions, v \in {OT, IoT} : onChange(s, v)
  \/ \E s \in Sessions, b \in BOOLEAN : setApplyForAll(s, b)
  \/ \E s \in Sessions : handleSave(s)
  \/ \E s \in Sessions : postOverride(s)
  \/ \E s \in Sessions : handleSaveDone(s)

\* Two editors saving the same field of the same device.
SpecConcurrent == InitConcurrent /\ [][NextConcurrent]_vars

(* ------------------------------------- the rename of sub_category rows *)

\* The UPDATE without its WHERE clause.
RenameSubCategory_NoWhere ==
  /\ user_input_cps_catalog' =
       {[u EXCEPT !.field_name = "device_type"] : u \in user_input_cps_catalog}
  /\ result' = Ret("RenameSubCategory", 0, "Success")
  /\ UNCHANGED <<cps_catalog_gold, nextId, assigned, editors, selected, ui>>

\* UPDATE cps.user_input_cps_catalog SET field_name = 'device_type'
\* WHERE field_name = 'sub_category'.
RenameSubCategory ==
  /\ user_input_cps_catalog' =
       {IF u.field_name = "sub_category"
          THEN [u EXCEPT !.field_name = "device_type"] ELSE u :
        u \in user_input_cps_catalog}
  /\ result' = Ret("RenameSubCategory", 0, "Success")
  /\ UNCHANGED <<cps_catalog_gold, nextId, assigned, editors, selected, ui>>

\* Requests of the time before the rename, on one device.
RenamePayloads ==
  [device_uuid : {"d1"}, field_name : {"sub_category", "category"},
   new_value : {OT, IoT}, is_validated : BOOLEAN, apply_for_all : {"FALSE"}]

NextRename ==
  \/ \E p \in RenamePayloads :
        /\ commitOverride(p.device_uuid, p.field_name, p.new_value,
                          p.is_validated, p.apply_for_all)
        /\ UNCHANGED editors
  \/ \E i \in 1..MaxId : deleteChange(i)
  \/ RenameSubCategory

\* The log under appends, reverts and the rename migration.
SpecRename == Init /\ [][NextRename]_vars

(* ------------------------------ the risk_score column over given tables *)

\* Text found in new_value of risk_score rows: the column is plain text.
RiskTexts ==
  {EmptyText, <<"7", ".", "5">>, <<"7", ".", "2", "5">>, <<"a", "b", "c">>,
   <<"1", "0", "0", "0">>}

\* A risk_score override row without its id.
RiskRows ==
  [device_uuid : Devices, cps_id : {"g1"}, field_name : {"risk_score"},
   new_value : RiskTexts, is_validated : BOOLEAN,
   apply_for_all : {"TRUE", "FALSE"}, changed_at : {1}]

\* An id under which the table holds no row.
NoRiskRow == [absent |-> TRUE]

WithId(r, i) ==
  [id |-> i, device_uuid |-> r.device_uuid, cps_id |-> r.cps_id,
   field_name |-> r.field_name, new_value |-> r.new_value,
   is_validated |-> r.is_validated, apply_for_all |-> r.apply_for_all,
   changed_at |-> r.changed_at]

\* Any table of at most MaxRows risk_score rows with distinct ids, over a
\* base catalog with both devices in one group.
InitNumeric ==
  /\ cps_catalog_gold = [d \in Devices |-> "g1"]
  /\ \E pick \in [1..MaxRows -> RiskRows \cup {NoRiskRow}] :
       user_input_cps_catalog =
         {WithId(pick[i], i) : i \in {j \in 1..MaxRows : pick[j] # NoRiskRow}}
  /\ nextId = MaxRows + 1
  /\ assigned = 1..MaxRows
  /\ result = Ret("none", 0, "none")
  /\ selected = NoSelect
  /\ InitUI

\* SELECT risk_score FROM the view WHERE device_uuid = d.
SelectRiskScore(d, mode) ==
  /\ d \in Present
  /\ LET r == risk_score(cps_catalog_gold, user_input_cps_catalog, mode, d) IN
       selected' = [device_uuid |-> d, mode |-> mode,
                    status |-> IF r.ok THEN "Success" ELSE "Error",
                    tenths |-> r.tenths]
  /\ UNCHANGED <<cps_catalog_gold, user_input_cps_catalog, nextId, assigned, editors, result, ui>>

NextNumeric == \E d \in Devices, mode \in Modes : SelectRiskScore(d, mode)

SpecNumeric == InitNumeric /\ [][NextNumeric]_vars

TypeOK ==
  /\ nextId \in 1..(MaxId + 1)
  /\ \A u \in user_input_cps_catalog : u.id < nextId

(* ------------------------------------------------------ ChangesLog *)

\* The page asks the server for the newest 1000 changes and shows 30 of
\* them.  The model keeps the two limits in that order at a size where a
\* table can hold more rows than one fetch: 2 for the 1000, 1 for the 30.
FetchLimit == 2

DisplayLimit == 1

\* Names as text, for the substring filters.
FieldText(f) ==
  IF f = "category" THEN <<"c", "a", "t", "e", "g", "o", "r", "y">>
  ELSE IF f = "device_type"
    THEN <<"d", "e", "v", "i", "c", "e", "_", "t", "y", "p", "e">>
  ELSE <<"?">>

\* The editor name every client sends.
CurrentUser == <<"C", "u", "r", "r", "e", "n", "t", " ", "U", "s", "e", "r">>

LowerChar(c) ==
  CASE c = "A" -> "a" [] c = "C" -> "c" [] c = "T" -> "t" [] c = "U" -> "u"
    [] OTHER -> c

toLowerCase(t) == [i \in 1..Len(t) |-> LowerChar(t[i])]

\* hay.includes(needle)
includes(hay, needle) ==
  \E i \in 0..Len(hay) :
    /\ i + Len(needle) <= Len(hay)
    /\ SubSeq(hay, i + 1, i + Len(needle)) = needle

\* a is listed before b: ORDER BY changed_at DESC, id DESC.
ChangeBefore(a, b) ==
  \/ a.changed_at > b.changed_at
  \/ a.changed_at = b.changed_at /\ a.id > b.id

RECURSIVE NewestFirst(_)
NewestFirst(S) ==
  IF S = {} THEN <<>>
  ELSE LET h == CHOOSE a \in S : \A b \in S \ {a} : ChangeBefore(a, b) IN
         <<h>> \o NewestFirst(S \ {h})

\* A row of the log as the history shows it: with the editor's name and
\* the vendor of the device's base row.
ChangeRow(u) ==
  [id |-> u.id, device_uuid |-> u.device_uuid, cps_id |-> u.cps_id,
   field_name |-> u.field_name, new_value |-> u.new_value,
   apply_for_all |-> u.apply_for_all, changed_at |-> u.changed_at,
   editor_user_name |-> CurrentUser,
   vendor |-> BaseValue(u.device_uuid, "vendor")]

\* array.slice(0, n)
slice(q, n) == SubSeq(q, 1, IF Len(q) < n THEN Len(q) ELSE n)

\* GET /changes?limit=n: the newest n rows of the log, newest first.
getAllChanges(limit) ==
  LET all == NewestFirst(user_input_cps_catalog) IN
    slice([i \in 1..Len(all) |-> ChangeRow(all[i])], limit)

\* The filters a row of the fetched list has to pass.
InDateRange(c, range) ==
  (range.from # NoDate \/ range.to # NoDate)
    => /\ ~(range.from # NoDate /\ c.changed_at < range.from)
       /\ ~(range.to # NoDate /\ c.changed_at > range.to)

PassesFilters(c, range, f) ==
  /\ InDateRange(c, range)
  /\ f.editor # EmptyText
       => includes(toLowerCase(c.editor_user_name), toLowerCase(f.editor))
  /\ f.field_name # EmptyText
       => includes(toLowerCase(FieldText(c.field_name)),
                   toLowerCase(f.field_name))
  /\ f.vendor # EmptyText
       => includes(toLowerCase(c.vendor), toLowerCase(f.vendor))
  /\ f.apply_for_all # "NULL"
       => ((f.apply_for_all = "TRUE") <=> (c.apply_for_all = "TRUE"))

\* data.filter(...) keeps the order of the list.
RECURSIVE filter(_, _, _)
filter(data, range, f) ==
  IF data = <<>> THEN <<>>
  ELSE (IF PassesFilters(Head(data), range, f) THEN <<Head(data)>> ELSE <<>>)
         \o filter(Tail(data), range, f)

\* What applyFilters sets changes to.
applyFilters(data, range, f) == slice(filter(data, range, f), DisplayLimit)

\* The page loads: one fetch, then the filters and the cut to the display.
loadChanges ==
  /\ allChanges' = getAllChanges(FetchLimit)
  /\ changes' = applyFilters(allChanges', dateRange, filters)
  /\ UNCHANGED <<cps_catalog_gold, user_input_cps_catalog, nextId, assigned,
                 editors, result, selected, device, variants, dateRange,
                 filters, changesOverTime, widgets>>

\* The effect on [dateRange, filters] filters the list fetched earlier.
Refiltered(range, f) ==
  IF Len(allChanges) > 0 THEN applyFilters(allChanges, range, f) ELSE changes

setFilters(f) ==
  /\ filters' = f
  /\ changes' = Refiltered(dateRange, f)
  /\ UNCHANGED <<cps_catalog_gold, user_input_cps_catalog, nextId, assigned,
                 editors, result, selected, device, variants, allChanges,
                 dateRange, changesOverTime, widgets>>

setDateRange(range) ==
  /\ dateRange' = range
  /\ changes' = Refiltered(range, filters)
  /\ UNCHANGED <<cps_catalog_gold, user_input_cps_catalog, nextId, assigned,
                 editors, result, selected, device, variants, allChanges,
                 filters, changesOverTime, widgets>>

\* What a user types and picks in the filter bar.  The switch sets the scope
\* filter to true or back to null.
FilterChoices ==
  [editor : {EmptyText, <<"U", "s", "e", "r">>},
   field_name : {EmptyText, <<"T", "y", "p", "e">>},
   vendor : {EmptyText, <<"a", "c">>},
   apply_for_all : {"NULL", "TRUE"}]

DateRanges == [from : {NoDate, LatestStamp}, to : {NoDate} \cup Times]

\* A change row without its id.
ChangeRows ==
  [device_uuid : {"d1"}, cps_id : {"g1"},
   field_name : {"category", "device_type"}, new_value : {OT},
   is_validated : {FALSE}, apply_for_all : {"TRUE", "FALSE"},
   changed_at : Times]

\* Any log of at most MaxChanges rows with ids 1, 2, ... in any order of
\* their stamps.
InitAudit ==
  /\ cps_catalog_gold = [d \in Devices |-> "g1"]
  /\ \E n \in 0..MaxChanges : \E pick \in [1..n -> ChangeRows] :
       /\ user_input_cps_catalog = {WithId(pick[i], i) : i \in 1..n}
       /\ nextId = n + 1
       /\ assigned = 1..n
  /\ result = Ret("none", 0, "none")
  /\ selected = NoSelect
  /\ InitUI

NextAudit ==
  \/ loadChanges
  \/ \E f \in FilterChoices : setFilters(f)
  \/ \E range \in DateRanges : setDateRange(range)

\* The ChangesLog page over any log.
SpecAudit == InitAudit /\ [][NextAudit]_vars

(* ------------------------------------------------- DeviceDetails chart *)

\* The page asks for the last 7 days.
WindowDays == 7

\* Calendar days on which the rows of a drawn log were changed: one day
\* before the window, and its first and last day.
ChartDays == {1, 2, 8}

Today == CHOOSE t \in ChartDays : \A o \in ChartDays : o <= t

\* A series with only the days that have entries, as a GROUP BY gives it.
getDeviceChangesOverTime_Sparse(d, days) ==
  LET count(day) ==
        Cardinality({u \in user_input_cps_catalog :
                       u.device_uuid = d /\ u.changed_at = day})
      dense == [i \in 1..days |->
                  [date |-> Today - days + i, count |-> count(Today - days + i)]]
  IN SelectSeq(dense, LAMBDA e : e.count > 0)

\* GET /device/{id}/changes-over-time?days: the device's entries counted by
\* day, one element for each day of the window, oldest day first.
getDeviceChangesOverTime(d, days) ==
  LET count(day) ==
        Cardinality({u \in user_input_cps_catalog :
                       u.device_uuid = d /\ u.changed_at = day})
  IN [i \in 1..days |->
        [date |-> Today - days + i, count |-> count(Today - days + i)]]

\* The page loads a device: its effective record and its chart series.
loadDevice(d, validatedOnly) ==
  /\ d \in Present
  /\ \E row \in ViewRows(cps_catalog_gold, user_input_cps_catalog,
                         ModeOf(validatedOnly), d) :
       device' = [device_uuid |-> d, validated_only |-> validatedOnly,
                  data |-> row]
  /\ changesOverTime' = getDeviceChangesOverTime(d, WindowDays)
  /\ result' = Ret("loadDevice", 0, "Success")
  /\ variants' = NoVariants
  /\ UNCHANGED <<cps_catalog_gold, user_input_cps_catalog, nextId, assigned,
                 editors, selected, allChanges, changes, dateRange, filters,
                 widgets>>

\* A change row without its id, of either device.
ChartRows ==
  [device_uuid : Devices, cps_id : {"g1"}, field_name : {"category"},
   new_value : {OT}, is_validated : {FALSE}, apply_for_all : {"FALSE"},
   changed_at : ChartDays]

InitChart ==
  /\ cps_catalog_gold = [d \in Devices |-> "g1"]
  /\ \E n \in 0..MaxChanges : \E pick \in [1..n -> ChartRows] :
       /\ user_input_cps_catalog = {WithId(pick[i], i) : i \in 1..n}
       /\ nextId = n + 1
       /\ assigned = 1..n
  /\ result = Ret("none", 0, "none")
  /\ selected = NoSelect
  /\ InitUI

NextChart == \E d \in Devices, validatedOnly \in BOOLEAN : loadDevice(d, validatedOnly)

\* The DeviceDetails page over any log.
SpecChart == InitChart /\ [][NextChart]_vars

(* -------------------------------------------------- text overrides *)

\* A value of blanks only.
Blank == <<" ">>

\* An override row of the category column without its id.
TextRows ==
  [device_uuid : {"d1"}, cps_id : {"g1"}, field_name : {"category"},
   new_value : {EmptyText, Blank, OT}, is_validated : BOOLEAN,
   apply_for_all : {"TRUE", "FALSE"}, changed_at : {1}]

\* Any table of at most MaxRows such rows with distinct ids, over a base
\* catalog with both devices in one group.
InitText ==
  /\ cps_catalog_gold = [d \in Devices |-> "g1"]
  /\ \E pick \in [1..MaxRows -> TextRows \cup {NoRiskRow}] :
       user_input_cps_catalog =
         {WithId(pick[i], i) : i \in {j \in 1..MaxRows : pick[j] # NoRiskRow}}
  /\ nextId = MaxRows + 1
  /\ assigned = 1..MaxRows
  /\ result = Ret("none", 0, "none")
  /\ selected = NoSelect
  /\ InitUI

NextText == \E d \in Devices, validatedOnly \in BOOLEAN : getDevice(d, validatedOnly)

\* The views read over any table of text overrides.
SpecText == InitText /\ [][NextText]_vars

(* ------------------------------------------------- scope of a write *)

\* An override row without its id, of either device and field, with the
\* scope flag set, cleared or NULL.
ScopeRows ==
  [device_uuid : Devices, cps_id : {"g1"}, field_name : {"vendor", "category"},
   new_value : {OT}, is_validated : BOOLEAN,
   apply_for_all : {"TRUE", "FALSE", "NULL"}, changed_at : {1}]

\* Any table of at most MaxRows rows with ids 1, 2, ..., over a base catalog
\* with the two devices in one group or in two.
InitScope ==
  /\ \E c \in Groups : cps_catalog_gold = [d \in Devices |-> IF d = "d1" THEN "g1" ELSE c]
  /\ \E n \in 0..MaxRows : \E pick \in [1..n -> ScopeRows] :
       /\ user_input_cps_catalog =
            {[WithId(pick[i], i) EXCEPT !.cps_id = cps_catalog_gold[pick[i].device_uuid]] :
               i \in 1..n}
       /\ nextId = n + 1
       /\ assigned = 1..n
  /\ result = Ret("none", 0, "none")
  /\ selected = NoSelect
  /\ InitUI

\* Requests of editors on either device.
ScopePayloads ==
  [device_uuid : Devices, field_name : {"category"}, new_value : {EmptyText, IoT},
   is_validated : BOOLEAN, apply_for_all : {"TRUE", "FALSE"}]

NextScope ==
  \/ \E p \in ScopePayloads :
        /\ commitOverride(p.device_uuid, p.field_name, p.new_value,
                          p.is_validated, p.apply_for_all)
        /\ UNCHANGED editors
  \/ \E i \in 1..MaxId : deleteChange(i)

\* Appends and reverts over any table.
SpecScope == InitScope /\ [][NextScope]_vars

(* ------------------------------------------------- CatalogDashboard *)

\* The delay of the search timer in milliseconds.
Debounce == 300

\* Filters of the dashboard: search_term is typed, vendor stands for the
\* filters that load at once (validated_only, vendor, category).
DashboardFilters(term, vendor) == [search_term |-> term, vendor |-> vendor]

\* loadData called from source src, in a render whose filters are f.  flip
\* tells one call from the next.
LoadData(src, f) ==
  [source |-> src, filters |-> f, flip |-> ~dashboard.lastLoad.flip]

\* The page after its mount: the mount effect and the effect on the other
\* filters have each called loadData, and the effect on search_term has
\* started its timer.  sinceChange is the time since search_term last
\* changed, and burstLoads the number of loads timers have made since then.
MountedDashboard ==
  [pc |-> "mounted",
   filters |-> DashboardFilters(EmptyText, EmptyText),
   timers |-> {[filters |-> DashboardFilters(EmptyText, EmptyText), age |-> 0]},
   lastLoad |-> [source |-> "filter",
                 filters |-> DashboardFilters(EmptyText, EmptyText),
                 flip |-> FALSE],
   sinceChange |-> 0,
   burstLoads |-> 0]

DashboardFrame ==
  UNCHANGED <<cps_catalog_gold, user_input_cps_catalog, nextId, assigned,
              editors, result, selected, device, variants, allChanges, changes,
              dateRange, filters, changesOverTime, table, revert, details>>

\* The effect on search_term without its cleanup: earlier timers stay.
handleFilterChange_NoClear(key, value) ==
  /\ dashboard.pc = "mounted"
  /\ dashboard.filters[key] # value
  /\ LET f == [dashboard.filters EXCEPT ![key] = value] IN
       IF key = "search_term"
         THEN dashboard' =
                [dashboard EXCEPT
                   !.filters = f,
                   !.timers = dashboard.timers \cup {[filters |-> f, age |-> 0]},
                   !.sinceChange = 0,
                   !.burstLoads = 0]
         ELSE dashboard' =
                [dashboard EXCEPT !.filters = f, !.lastLoad = LoadData("filter", f)]
  /\ DashboardFrame

\* handleFilterChange(key, value) and the effects of the render it causes:
\* for search_term the cleanup clears the timer and the effect starts one;
\* for another filter the effect calls loadData.
handleFilterChange(key, value) ==
  /\ dashboard.pc = "mounted"
  /\ dashboard.filters[key] # value
  /\ LET f == [dashboard.filters EXCEPT ![key] = value] IN
       IF key = "search_term"
         THEN dashboard' =
                [dashboard EXCEPT
                   !.filters = f,
                   !.timers = {[filters |-> f, age |-> 0]},
                   !.sinceChange = 0,
                   !.burstLoads = 0]
         ELSE dashboard' =
                [dashboard EXCEPT !.filters = f, !.lastLoad = LoadData("filter", f)]
  /\ DashboardFrame

\* 100 ms pass.  A timer that is due runs before more time passes.
tick ==
  /\ dashboard.pc = "mounted"
  /\ \A t \in dashboard.timers : t.age < Debounce
  /\ dashboard.sinceChange < Debounce \/ dashboard.timers # {}
  /\ dashboard' =
       [dashboard EXCEPT
          !.timers = {[t EXCEPT !.age = t.age + 100] : t \in dashboard.timers},
          !.sinceChange = IF @ < Debounce THEN @ + 100 ELSE @]
  /\ DashboardFrame

\* A timer that is due calls the loadData of the render that started it.
timerFires ==
  /\ dashboard.pc = "mounted"
  /\ \E t \in dashboard.timers :
       /\ t.age >= Debounce
       /\ dashboard' =
            [dashboard EXCEPT
               !.timers = dashboard.timers \ {t},
               !.lastLoad = LoadData("timer", t.filters),
               !.burstLoads = @ + 1]
  /\ DashboardFrame

\* What a user types in the search box and picks as vendor.
SearchTerms == {EmptyText, <<"a">>, <<"a", "b">>}

VendorChoices == {EmptyText, Acme}

InitDashboard ==
  /\ cps_catalog_gold = [d \in Devices |-> IF d = "d1" THEN "g1" ELSE NoRow]
  /\ user_input_cps_catalog = {}
  /\ nextId = 1
  /\ assigned = {}
  /\ result = Ret("none", 0, "none")
  /\ selected = NoSelect
  /\ device = NoDevice
  /\ variants = NoVariants
  /\ editors = NoEditors
  /\ InitChangesLog
  /\ changesOverTime = <<>>
  /\ table = NoTable
  /\ revert = NoRevert
  /\ details = NoDetails
  /\ dashboard = MountedDashboard

NextDashboard ==
  \/ \E v \in SearchTerms : handleFilterChange("search_term", v)
  \/ \E v \in VendorChoices : handleFilterChange("vendor", v)
  \/ tick
  \/ timerFires

\* The dashboard under typing, filter changes and passing time.
SpecDashboard == InitDashboard /\ [][NextDashboard]_vars

(* ------------------------------------------ CVETable and PatchTable *)

Quote == "\""

Backslash == "\\"

\* The option Confirmed of the relevance select.
Confirmed == <<"C", "o", "n", "f", "i", "r", "m", "e", "d">>

\* The property names of a row, as the component writes them.
Keys(kind) ==
  IF kind = "CVETable" THEN <<"cve", "relevance">> ELSE <<"kb", "link">>

\* The other spellings parseValue accepts for a property.
AltKey(k) ==
  IF k = "cve" THEN "CVE"
  ELSE IF k = "kb" THEN "KB"
  ELSE IF k = "link" THEN "Link"
  ELSE "none"

\* A property name, character by character.
Chars(k) ==
  IF k = "cve" THEN <<"c", "v", "e">>
  ELSE IF k = "CVE" THEN <<"C", "V", "E">>
  ELSE IF k = "relevance"
    THEN <<"r", "e", "l", "e", "v", "a", "n", "c", "e">>
  ELSE IF k = "kb" THEN <<"k", "b">>
  ELSE IF k = "KB" THEN <<"K", "B">>
  ELSE IF k = "link" THEN <<"l", "i", "n", "k">>
  ELSE IF k = "Link" THEN <<"L", "i", "n", "k">>
  ELSE <<>>

\* The field a table saves.
FieldOf(kind) ==
  IF kind = "CVETable" THEN "potential_cves" ELSE "certified_patches"

Item(kind, a, b) ==
  IF kind = "CVETable" THEN [cve |-> a, relevance |-> b]
  ELSE [kb |-> a, link |-> b]

RECURSIVE trimStart(_)
trimStart(t) ==
  IF t # <<>> /\ Head(t) = " " THEN trimStart(Tail(t)) ELSE t

RECURSIVE trimEnd(_)
trimEnd(t) ==
  IF t # <<>> /\ t[Len(t)] = " " THEN trimEnd(SubSeq(t, 1, Len(t) - 1)) ELSE t

\* String.prototype.trim, the only white space of the model being " ".
trim(t) == trimEnd(trimStart(t))

\* JSON.stringify of a string: quotes around it, a backslash before each
\* quote and backslash.
RECURSIVE escape(_)
escape(t) ==
  IF t = <<>> THEN <<>>
  ELSE (IF Head(t) \in {Quote, Backslash} THEN <<Backslash, Head(t)>>
        ELSE <<Head(t)>>) \o escape(Tail(t))

quoted(t) == <<Quote>> \o escape(t) \o <<Quote>>

\* JSON.stringify of one row: its two properties in the order they were set.
stringifyItem(kind, item) ==
  <<"{">> \o quoted(Chars(Keys(kind)[1])) \o <<":">>
          \o quoted(item[Keys(kind)[1]]) \o <<",">>
          \o quoted(Chars(Keys(kind)[2])) \o <<":">>
          \o quoted(item[Keys(kind)[2]]) \o <<"}">>

RECURSIVE stringifyItems(_, _)
stringifyItems(kind, items) ==
  IF items = <<>> THEN <<>>
  ELSE stringifyItem(kind, Head(items))
         \o (IF Tail(items) = <<>> THEN <<>> ELSE <<",">>)
         \o stringifyItems(kind, Tail(items))

\* JSON.stringify of the rows.
stringify(kind, items) == <<"[">> \o stringifyItems(kind, items) \o <<"]">>

\* A text that JSON.parse rejects.
SyntaxError == [ok |-> FALSE, val |-> <<>>, next |-> 0]

\* JSON.parse inside a string, after its opening quote at i - 1.
RECURSIVE ReadString(_, _, _)
ReadString(s, i, acc) ==
  IF i > Len(s) THEN SyntaxError
  ELSE IF s[i] = Quote THEN [ok |-> TRUE, val |-> acc, next |-> i + 1]
  ELSE IF s[i] = Backslash
    THEN IF i + 1 <= Len(s) /\ s[i + 1] \in {Quote, Backslash}
           THEN ReadString(s, i + 2, Append(acc, s[i + 1]))
           ELSE SyntaxError
  ELSE ReadString(s, i + 1, Append(acc, s[i]))

ParseString(s, i) ==
  IF i <= Len(s) /\ s[i] = Quote THEN ReadString(s, i + 1, <<>>)
  ELSE SyntaxError

\* The members of an object from position i: "key":"value" pairs with
\* commas between them, up to the closing brace.
RECURSIVE ReadMembers(_, _, _)
ReadMembers(s, i, acc) ==
  LET k == ParseString(s, i) IN
    IF ~k.ok \/ k.next > Len(s) \/ s[k.next] # ":" THEN SyntaxError
    ELSE LET v == ParseString(s, k.next + 1)
             m == Append(acc, <<k.val, v.val>>) IN
           IF ~v.ok \/ v.next > Len(s) THEN SyntaxError
           ELSE IF s[v.next] = "," THEN ReadMembers(s, v.next + 1, m)
           ELSE IF s[v.next] = "}"
             THEN [ok |-> TRUE, val |-> m, next |-> v.next + 1]
           ELSE SyntaxError

ParseObject(s, i) ==
  IF i > Len(s) \/ s[i] # "{" THEN SyntaxError
  ELSE IF i + 1 <= Len(s) /\ s[i + 1] = "}"
    THEN [ok |-> TRUE, val |-> <<>>, next |-> i + 2]
  ELSE ReadMembers(s, i + 1, <<>>)

RECURSIVE ReadElements(_, _, _)
ReadElements(s, i, acc) ==
  LET o == ParseObject(s, i) IN
    IF ~o.ok \/ o.next > Len(s) THEN SyntaxError
    ELSE IF s[o.next] = "," THEN ReadElements(s, o.next + 1, Append(acc, o.val))
    ELSE IF s[o.next] = "]"
      THEN [ok |-> TRUE, val |-> Append(acc, o.val), next |-> o.next + 1]
    ELSE SyntaxError

\* JSON.parse of a text that is an array of objects with string values; the
\* texts of the model are of this shape or are no JSON at all.
JSONparse(s) ==
  LET a == IF Len(s) < 2 \/ s[1] # "[" THEN SyntaxError
           ELSE IF s[2] = "]" THEN [ok |-> TRUE, val |-> <<>>, next |-> 3]
           ELSE ReadElements(s, 2, <<>>) IN
    IF a.ok /\ a.next = Len(s) + 1 THEN a ELSE SyntaxError

\* item.k of a parsed object: the value of its last member k, and the
\* empty text (for undefined) without one.
RECURSIVE Property(_, _)
Property(obj, k) ==
  IF obj = <<>> THEN EmptyText
  ELSE IF obj[Len(obj)][1] = Chars(k) THEN obj[Len(obj)][2]
  ELSE Property(SubSeq(obj, 1, Len(obj) - 1), k)

\* item.k || item.K || ''
PropertyOr(obj, k) ==
  IF Property(obj, k) # EmptyText THEN Property(obj, k)
  ELSE Property(obj, AltKey(k))

\* parsed.map(...).filter(item => item.a || item.b)
RECURSIVE mapItems(_, _)
mapItems(kind, parsed) ==
  IF parsed = <<>> THEN <<>>
  ELSE LET a == PropertyOr(Head(parsed), Keys(kind)[1])
           b == PropertyOr(Head(parsed), Keys(kind)[2]) IN
         (IF a # EmptyText \/ b # EmptyText THEN <<Item(kind, a, b)>> ELSE <<>>)
           \o mapItems(kind, Tail(parsed))

\* val.split(',')
RECURSIVE split(_, _)
split(t, acc) ==
  IF t = <<>> THEN <<acc>>
  ELSE IF Head(t) = "," THEN <<acc>> \o split(Tail(t), <<>>)
  ELSE split(Tail(t), Append(acc, Head(t)))

\* The legacy format: one row for each part between commas that is not blank.
RECURSIVE legacyItems(_, _)
legacyItems(kind, parts) ==
  IF parts = <<>> THEN <<>>
  ELSE (IF trim(Head(parts)) # EmptyText
          THEN <<Item(kind, trim(Head(parts)), EmptyText)>> ELSE <<>>)
         \o legacyItems(kind, Tail(parts))

parseValue_KeepFirst(kind, val) ==
  IF val = NULL \/ val = EmptyText THEN <<>>
  ELSE IF JSONparse(val).ok
    THEN LET m == mapItems(kind, JSONparse(val).val) IN
           IF m = <<>> THEN <<>> ELSE <<m[1]>>
  ELSE legacyItems(kind, split(val, <<>>))

\* parseValue of CVETable and of PatchTable.
parseValue(kind, val) ==
  IF val = NULL \/ val = EmptyText THEN <<>>
  ELSE IF JSONparse(val).ok THEN mapItems(kind, JSONparse(val).val)
  ELSE legacyItems(kind, split(val, <<>>))

\* The rows handleSave keeps: CVETable those with a cve that is not blank
\* or a relevance, PatchTable those with a kb or a link that is not blank.
RECURSIVE keptItems(_, _)
keptItems(kind, items) ==
  IF items = <<>> THEN <<>>
  ELSE LET a == Head(items)[Keys(kind)[1]]
           b == Head(items)[Keys(kind)[2]] IN
         (IF trim(a) # EmptyText
               \/ (IF kind = "CVETable" THEN b ELSE trim(b)) # EmptyText
            THEN <<Head(items)>> ELSE <<>>)
           \o keptItems(kind, Tail(items))

\* What is typed into the text cells.
CellTexts == {EmptyText, <<" ">>, <<"a">>, <<Quote, Backslash>>}

\* The options of the relevance select.
RelevanceOptions == {EmptyText, Confirmed}

CellValues(kind, k) ==
  IF kind = "CVETable" /\ k = 2 THEN RelevanceOptions ELSE CellTexts

NoPayload == <<"none">>

\* A table on the page of device d showing cv.
MountedTable(kind, d, cv) ==
  [pc |-> "idle", kind |-> kind, deviceUuid |-> d, currentValue |-> cv,
   items |-> parseValue(kind, cv), applyForAll |-> FALSE, isSaving |-> FALSE,
   error |-> NoError, success |-> FALSE, sent |-> <<>>,
   valueToSave |-> NoPayload, response |-> NoResponse]

\* hasChanges: JSON.stringify(items) !== JSON.stringify(parseValue(currentValue))
hasChanges(t) ==
  stringify(t.kind, t.items) # stringify(t.kind, parseValue(t.kind, t.currentValue))

TableFrame ==
  UNCHANGED <<cps_catalog_gold, user_input_cps_catalog, nextId, assigned,
              editors, result, selected, device, variants, allChanges, changes,
              dateRange, filters, changesOverTime, revert, dashboard, details>>

\* The rows are edited while the log can still take a save.
Editable == table.pc = "idle" /\ nextId <= MaxId

addRow ==
  /\ Editable /\ Len(table.items) < MaxItems
  /\ table' = [table EXCEPT
                 !.items = Append(@, Item(table.kind, EmptyText, EmptyText))]
  /\ TableFrame

removeRow(index) ==
  /\ Editable /\ index \in 1..Len(table.items)
  /\ table' = [table EXCEPT
                 !.items = SubSeq(@, 1, index - 1)
                             \o SubSeq(@, index + 1, Len(@))]
  /\ TableFrame

updateItem(index, k, value) ==
  /\ Editable /\ index \in 1..Len(table.items)
  /\ value \in CellValues(table.kind, k)
  /\ table' = [table EXCEPT !.items[index][Keys(table.kind)[k]] = value]
  /\ TableFrame

\* The check box of the save bar, shown when hasChanges.
setTableApplyForAll(b) ==
  /\ Editable /\ hasChanges(table)
  /\ table' = [table EXCEPT !.applyForAll = b]
  /\ TableFrame

\* handleSave up to its await: the rows kept are written as JSON and posted.
tableHandleSave ==
  /\ Editable /\ hasChanges(table) /\ ~table.isSaving
  /\ table' = [table EXCEPT
                 !.pc = "posting", !.isSaving = TRUE, !.error = NoError,
                 !.success = FALSE,
                 !.sent = keptItems(table.kind, table.items),
                 !.valueToSave =
                    stringify(table.kind, keptItems(table.kind, table.items))]
  /\ TableFrame

\* The server handles the POST of the table.
tablePost ==
  /\ table.pc = "posting"
  /\ commitOverride_Rows(table.deviceUuid, FieldOf(table.kind),
                         table.valueToSave, FALSE,
                         IF table.applyForAll THEN "TRUE" ELSE "FALSE")
  /\ table' = [table EXCEPT !.pc = "answered", !.response = result']
  /\ UNCHANGED <<cps_catalog_gold, selected, editors, device, variants,
                 allChanges, changes, dateRange, filters, changesOverTime,
                 revert, dashboard, details>>

\* handleSave after its await.  On success onSave hands valueToSave to
\* handleFieldSave, which puts it in the device shown, so currentValue is
\* valueToSave and the effect on [currentValue] parses it into the rows.
tableHandleSaveDone ==
  /\ table.pc = "answered"
  /\ table' =
       IF table.response.status = "Success"
         THEN [table EXCEPT
                 !.pc = "loading", !.isSaving = FALSE, !.success = TRUE,
                 !.currentValue = table.valueToSave,
                 !.items = parseValue(table.kind, table.valueToSave)]
         ELSE [table EXCEPT
                 !.pc = "idle", !.isSaving = FALSE,
                 !.error = table.response.status]
  /\ TableFrame

\* The loadDevice that handleFieldSave started answers: the table is on
\* the page again with the field of the effective view.
tableLoaded ==
  /\ table.pc = "loading"
  /\ table' =
       [MountedTable(table.kind, table.deviceUuid,
                     ViewColumn(cps_catalog_gold, user_input_cps_catalog,
                                "effective", table.deviceUuid,
                                FieldOf(table.kind)))
          EXCEPT !.sent = table.sent, !.valueToSave = table.valueToSave,
                 !.response = table.response]
  /\ TableFrame

\* The log before the table is used: empty, or with one entry for the whole
\* group made from the other device of the group.
TableLogs(kind) ==
  {{}} \cup
  {{[id |-> 1, device_uuid |-> "d2", cps_id |-> "g1",
     field_name |-> FieldOf(kind),
     new_value |-> stringify(kind, <<Item(kind, <<"a">>, EmptyText)>>),
     is_validated |-> FALSE, apply_for_all |-> "TRUE", changed_at |-> 1]}}

InitTable ==
  /\ cps_catalog_gold = [d \in Devices |-> "g1"]
  /\ nextId = MaxId
  /\ assigned = 1..(MaxId - 1)
  /\ result = Ret("none", 0, "none")
  /\ selected = NoSelect
  /\ device = NoDevice
  /\ variants = NoVariants
  /\ editors = NoEditors
  /\ InitChangesLog
  /\ changesOverTime = <<>>
  /\ revert = NoRevert
  /\ dashboard = NoDashboard
  /\ details = NoDetails
  /\ \E kind \in {"CVETable", "PatchTable"} :
       /\ user_input_cps_catalog \in TableLogs(kind)
       /\ table = MountedTable(kind, "d1",
                    ViewColumn(cps_catalog_gold, user_input_cps_catalog,
                               "effective", "d1", FieldOf(kind)))

NextTable ==
  \/ addRow
  \/ \E index \in 1..MaxItems : removeRow(index)
  \/ \E index \in 1..MaxItems, k \in 1..2 :
       \E value \in CellTexts \cup RelevanceOptions :
         updateItem(index, k, value)
  \/ \E b \in BOOLEAN : setTableApplyForAll(b)
  \/ tableHandleSave
  \/ tablePost
  \/ tableHandleSaveDone
  \/ tableLoaded

\* A CVETable or PatchTable through edits of its rows, one save and the
\* reload that follows.
SpecTable == InitTable /\ [][NextTable]_vars

(* ------------------------------------------- ChangesLog: revert *)

\* No change is chosen for the revert dialog (changeToRevert is null).
NoChange == [id |-> 0]

\* The ChangesLog page of a client after its first loadChanges, with the
\* revert dialog closed.  allChanges and changes are the lists of that page;
\* response is the answer of deleteChange and reload the outcome of the
\* loadChanges that follows a revert.
MountedRevert ==
  [pc |-> "idle", revertDialogOpen |-> FALSE, changeToRevert |-> NoChange,
   reverting |-> FALSE, response |-> NoResponse, reload |-> "none",
   allChanges |-> getAllChanges(FetchLimit),
   changes |-> applyFilters(getAllChanges(FetchLimit), dateRange, filters)]

RevertFrame ==
  UNCHANGED <<cps_catalog_gold, user_input_cps_catalog, nextId, assigned,
              editors, result, selected, device, variants, allChanges, changes,
              dateRange, filters, changesOverTime, table, dashboard, details>>

\* The revert button of a change shown in the list.
openRevertDialog(s, n) ==
  /\ revert[s].pc = "idle" /\ ~revert[s].revertDialogOpen
  /\ n \in 1..Len(revert[s].changes)
  /\ revert' = [revert EXCEPT
                  ![s].changeToRevert = revert[s].changes[n],
                  ![s].revertDialogOpen = TRUE,
                  ![s].response = NoResponse,
                  ![s].reload = "none"]
  /\ RevertFrame

\* The Cancel button of the dialog.
cancelRevert(s) ==
  /\ revert[s].pc = "idle" /\ revert[s].revertDialogOpen
  /\ ~revert[s].reverting
  /\ revert' = [revert EXCEPT ![s].revertDialogOpen = FALSE,
                              ![s].changeToRevert = NoChange]
  /\ RevertFrame

\* handleRevert up to its await.
handleRevert(s) ==
  /\ revert[s].pc = "idle" /\ revert[s].revertDialogOpen
  /\ ~revert[s].reverting
  /\ revert[s].changeToRevert # NoChange
  /\ revert' = [revert EXCEPT ![s].reverting = TRUE, ![s].pc = "deleting"]
  /\ RevertFrame

\* The server handles the DELETE of client s.
serveDelete(s) ==
  /\ revert[s].pc = "deleting"
  /\ deleteChange_Rows(revert[s].changeToRevert.id)
  /\ revert' = [revert EXCEPT ![s].pc = "answered", ![s].response = result']
  /\ UNCHANGED <<cps_catalog_gold, nextId, assigned, editors, selected, device,
                 variants, allChanges, changes, dateRange, filters,
                 changesOverTime, table, dashboard, details>>

\* The DELETE of client s fails on the way: deleteChange throws.
deleteThrows(s) ==
  /\ revert[s].pc = "deleting"
  /\ revert' = [revert EXCEPT
                  ![s].pc = "answered",
                  ![s].response = Ret("deleteChange",
                                      revert[s].changeToRevert.id,
                                      "NetworkError")]
  /\ RevertFrame

\* handleRevert after its await, without closing the dialog on success.
handleRevertDone_KeepDialog(s) ==
  /\ revert[s].pc = "answered"
  /\ revert' =
       IF revert[s].response.status = "Success"
         THEN [revert EXCEPT ![s].pc = "reloading"]
         ELSE [revert EXCEPT ![s].pc = "idle", ![s].reverting = FALSE]
  /\ RevertFrame

\* handleRevert after its await.  On success the dialog is closed, no
\* change is chosen and loadChanges is awaited; every other answer, a
\* thrown error included, leaves the page as it is; finally reverting is
\* set to false.
handleRevertDone(s) ==
  /\ revert[s].pc = "answered"
  /\ revert' =
       IF revert[s].response.status = "Success"
         THEN [revert EXCEPT ![s].pc = "reloading",
                             ![s].revertDialogOpen = FALSE,
                             ![s].changeToRevert = NoChange]
         ELSE [revert EXCEPT ![s].pc = "idle", ![s].reverting = FALSE]
  /\ RevertFrame

\* The loadChanges that handleRevert awaits: the list is fetched and
\* filtered; then handleRevert's finally runs.
revertReloaded(s) ==
  /\ revert[s].pc = "reloading"
  /\ revert' = [revert EXCEPT
                  ![s].pc = "idle", ![s].reverting = FALSE,
                  ![s].reload = "Success",
                  ![s].allChanges = getAllChanges(FetchLimit),
                  ![s].changes = applyFilters(getAllChanges(FetchLimit),
                                              dateRange, filters)]
  /\ RevertFrame

\* The same loadChanges with a fetch that fails: it is caught there and
\* the lists stay.
revertReloadFails(s) ==
  /\ revert[s].pc = "reloading"
  /\ revert' = [revert EXCEPT ![s].pc = "idle", ![s].reverting = FALSE,
                              ![s].reload = "Failed"]
  /\ RevertFrame

\* The entries of the log before the pages are opened.
RevertRows ==
  [device_uuid : {"d1"}, cps_id : {"g1"}, field_name : {"category"},
   new_value : {OT}, is_validated : {FALSE}, apply_for_all : {"FALSE"},
   changed_at : Times]

InitRevert ==
  /\ cps_catalog_gold = [d \in Devices |-> "g1"]
  /\ \E n \in 0..MaxChanges : \E pick \in [1..n -> RevertRows] :
       /\ user_input_cps_catalog = {WithId(pick[i], i) : i \in 1..n}
       /\ nextId = n + 1
       /\ assigned = 1..n
  /\ result = Ret("none", 0, "none")
  /\ selected = NoSelect
  /\ device = NoDevice
  /\ variants = NoVariants
  /\ editors = NoEditors
  /\ InitChangesLog
  /\ changesOverTime = <<>>
  /\ table = NoTable
  /\ dashboard = NoDashboard
  /\ details = NoDetails
  /\ revert = [s \in Sessions |-> MountedRevert]

NextRevert ==
  \/ \E s \in Sessions, n \in 1..DisplayLimit : openRevertDialog(s, n)
  \/ \E s \in Sessions : cancelRevert(s)
  \/ \E s \in Sessions : handleRevert(s)
  \/ \E s \in Sessions : serveDelete(s)
  \/ \E s \in Sessions : deleteThrows(s)
  \/ \E s \in Sessions : handleRevertDone(s)
  \/ \E s \in Sessions : revertReloaded(s)
  \/ \E s \in Sessions : revertReloadFails(s)

\* Two clients on the ChangesLog page, each reverting changes it shows.
SpecRevert == InitRevert /\ [][NextRevert]_vars

(* -------------------------------------------- DeviceDetails loads *)

\* Requests of loadDevice that can be on their way at once.
LoadSlots == {1, 2}

\* The fields whose editors are followed, each with the value it saves.
SavedFields == {"category", "device_type"}

\* The page for device d after its mount, with validatedOnly false and the
\* first loadDevice on its way.  loads holds the calls of loadDevice that
\* have not completed, saves the saves of the field components that have not
\* called onSave yet.
MountedDetails(d) ==
  [pc |-> "mounted", deviceUuid |-> d, validatedOnly |-> FALSE,
   loading |-> TRUE,
   loads |-> {[slot |-> 1, device_uuid |-> d, validated_only |-> FALSE,
               pc |-> "sent", data |-> NoData, changes |-> <<>>]},
   saves |-> {}]

DetailsFrame ==
  UNCHANGED <<cps_catalog_gold, user_input_cps_catalog, nextId, assigned,
              editors, result, selected, variants, allChanges, changes,
              dateRange, filters, table, revert, dashboard>>

\* loadDevice up to its requests: setLoading(true) and the GETs leave with
\* the deviceUuid and validatedOnly of the render that calls it.
StartLoad(dt, validatedOnly) ==
  LET free == CHOOSE n \in LoadSlots : \A l \in dt.loads : l.slot # n IN
    [dt EXCEPT
       !.loading = TRUE,
       !.loads = dt.loads \cup
                   {[slot |-> free, device_uuid |-> dt.deviceUuid,
                     validated_only |-> validatedOnly, pc |-> "sent",
                     data |-> NoData, changes |-> <<>>]}]

CanStartLoad == \E n \in LoadSlots : \A l \in details.loads : l.slot # n

\* The switch Validated Only, on the page when it is not loading: the
\* effect on [deviceUuid, validatedOnly, schema] calls loadDevice.
setValidatedOnly(b) ==
  /\ details.pc = "mounted" /\ ~details.loading
  /\ device.device_uuid # NoRow
  /\ b # details.validatedOnly
  /\ CanStartLoad
  /\ details' = StartLoad([details EXCEPT !.validatedOnly = b], b)
  /\ UNCHANGED <<device, changesOverTime>>
  /\ DetailsFrame

\* The server answers the GETs of a load from the tables as they are.
serveLoad(n) ==
  /\ \E l \in details.loads :
       /\ l.slot = n /\ l.pc = "sent"
       /\ \E row \in ViewRows(cps_catalog_gold, user_input_cps_catalog,
                              ModeOf(l.validated_only), l.device_uuid) :
            details' =
              [details EXCEPT
                 !.loads = (details.loads \ {l}) \cup
                   {[l EXCEPT !.pc = "served", !.data = row,
                              !.changes = getDeviceChangesOverTime(l.device_uuid,
                                                                   WindowDays)]}]
  /\ UNCHANGED <<device, changesOverTime>>
  /\ DetailsFrame

\* loadDevice after its await: setDevice, setChangesOverTime and, in
\* finally, setLoading(false).
loadDeviceDone(n) ==
  /\ \E l \in details.loads :
       /\ l.slot = n /\ l.pc = "served"
       /\ device' = [device_uuid |-> l.device_uuid,
                     validated_only |-> l.validated_only, data |-> l.data]
       /\ changesOverTime' = l.changes
       /\ details' = [details EXCEPT !.loading = FALSE,
                                     !.loads = details.loads \ {l}]
  /\ DetailsFrame

\* A field component on the page posts a save of field f.  Its handleSave
\* holds the onSave of the render it was made in, and with it that render's
\* validatedOnly.
saveClicked(f, v) ==
  /\ details.pc = "mounted" /\ ~details.loading
  /\ device.device_uuid # NoRow
  /\ \A p \in details.saves : p.field_name # f
  /\ details' = [details EXCEPT
                   !.saves = @ \cup {[field_name |-> f, new_value |-> v,
                                      validatedOnly |-> details.validatedOnly,
                                      pc |-> "posting"]}]
  /\ UNCHANGED <<device, changesOverTime>>
  /\ DetailsFrame

\* The server handles the POST of a save.
servePost(f) ==
  /\ \E p \in details.saves :
       /\ p.field_name = f /\ p.pc = "posting"
       /\ commitOverride_Rows(details.deviceUuid, p.field_name, p.new_value,
                              FALSE, "FALSE")
       /\ details' = [details EXCEPT
                        !.saves = (@ \ {p}) \cup {[p EXCEPT !.pc = "answered"]}]
  /\ UNCHANGED <<cps_catalog_gold, selected, editors, device, variants,
                 allChanges, changes, dateRange, filters, changesOverTime,
                 table, revert, dashboard>>

\* The field component, on the page or not, gets its answer and calls
\* onSave: the handleFieldSave it holds sets the field in the device shown
\* and calls its loadDevice.
handleFieldSave(f) ==
  /\ CanStartLoad
  /\ \E p \in details.saves :
       /\ p.field_name = f /\ p.pc = "answered"
       /\ device' = IF f \in ViewFields /\ device.device_uuid # NoRow
                      THEN [device EXCEPT !.data[f] = p.new_value]
                      ELSE device
       /\ details' = StartLoad([details EXCEPT !.saves = @ \ {p}],
                               p.validatedOnly)
  /\ UNCHANGED changesOverTime
  /\ DetailsFrame

InitDetails ==
  /\ cps_catalog_gold = [d \in Devices |-> IF d = "d1" THEN "g1" ELSE NoRow]
  /\ user_input_cps_catalog = {}
  /\ nextId = 1
  /\ assigned = {}
  /\ result = Ret("none", 0, "none")
  /\ selected = NoSelect
  /\ device = NoDevice
  /\ variants = NoVariants
  /\ editors = NoEditors
  /\ InitChangesLog
  /\ changesOverTime = <<>>
  /\ table = NoTable
  /\ revert = NoRevert
  /\ dashboard = NoDashboard
  /\ details = MountedDetails("d1")

NextDetails ==
  \/ \E b \in BOOLEAN : setValidatedOnly(b)
  \/ \E n \in LoadSlots : serveLoad(n)
  \/ \E n \in LoadSlots : loadDeviceDone(n)
  \/ \E f \in SavedFields : saveClicked(f, OT)
  \/ \E f \in SavedFields : servePost(f)
  \/ \E f \in SavedFields : handleFieldSave(f)

\* The DeviceDetails page of device d1 under loads, saves and the switch.
SpecDetails == InitDetails /\ [][NextDetails]_vars

(* ------------------------------------------- terms of the properties *)

\* The properties speak of scope buckets and their winners in the terms of
\* the design: an entry's scope and its own group_id, and the rank of an
\* entry as one number.

IsGroupScope(u) == u.apply_for_all = "TRUE"

Candidates(mode) ==
  {u \in user_input_cps_catalog : mode = "effective_validated" => u.is_validated}

DeviceBucket(d, f, mode) ==
  {u \in Candidates(mode) :
     ~IsGroupScope(u) /\ u.device_uuid = d /\ u.field_name = f}

GroupBucket(c, f, mode) ==
  {u \in Candidates(mode) : IsGroupScope(u) /\ u.cps_id = c /\ u.field_name = f}

\* Rank under (is_validated, changed_at, id), the trust flag counting only
\* in mode effective.
Rank(u, mode) ==
  (IF mode = "effective" /\ u.is_validated
     THEN (LatestStamp + 1) * (MaxId + 2) ELSE 0)
  + u.changed_at * (MaxId + 2) + u.id

Winners(B, mode) == {u \in B : \A o \in B : Rank(o, mode) <= Rank(u, mode)}

NonEmptyWinner(B, mode) == {u \in Winners(B, mode) : u.new_value # EmptyText}

(* ------------------------------------------------------------ claims *)

\* C1: a device-scope winner with a non-empty value v makes ResolveField
\* return v, whatever group-scope overrides and base value exist.
C1_DeviceOverrideWins ==
  \A d \in Present, f \in ViewFields, mode \in Modes :
    \A w \in NonEmptyWinner(DeviceBucket(d, f, mode), mode) :
      ResolveField(d, f, mode) = w.new_value

\* C1 witness: the device winner is returned although the group bucket holds
\* a validated entry with another value and a later stamp.
C1_Witness ==
  \E d \in Present, w \in user_input_cps_catalog, g \in user_input_cps_catalog :
    /\ w \in NonEmptyWinner(DeviceBucket(d, "category", "effective"), "effective")
    /\ g \in NonEmptyWinner(GroupBucket(cps_catalog_gold[d], "category", "effective"),
                            "effective")
    /\ g.new_value # w.new_value
    /\ g.is_validated /\ ~w.is_validated
    /\ g.changed_at > w.changed_at /\ g.id > w.id
    /\ ResolveField(d, "category", "effective") = w.new_value

\* C2 as stated: an entry with an empty value never changes ResolveField,
\* that is, resolution over the log equals resolution over the log without
\* the entry, for every device, field and mode.
C2_EmptyEntryIsAbsent ==
  \A e \in user_input_cps_catalog :
    e.new_value = EmptyText =>
      \A d \in Present, f \in ViewFields, mode \in Modes :
        ResolveField(d, f, mode) =
          ResolveIn(cps_catalog_gold, user_input_cps_catalog \ {e}, d, f, mode)

\* The entries of the scope bucket of e, of either trust level.
BucketOf(e) ==
  {u \in user_input_cps_catalog :
     /\ u.field_name = e.field_name
     /\ IsGroupScope(u) = IsGroupScope(e)
     /\ IF IsGroupScope(e) THEN u.cps_id = e.cps_id
        ELSE u.device_uuid = e.device_uuid}

\* e wins its bucket in the mode and, without e, the bucket's winner would
\* have a non-empty value.
HidesNonEmpty(e, mode) ==
  /\ e \in Winners(BucketOf(e) \cap Candidates(mode), mode)
  /\ NonEmptyWinner((BucketOf(e) \cap Candidates(mode)) \ {e}, mode) # {}

\* C2 amended: an entry with an empty value changes nothing, except when it
\* wins its bucket over an entry that would otherwise win with a non-empty
\* value; then the whole bucket is skipped and resolution equals resolution
\* over the log without any entry of that bucket.
C2_EmptyWinnerSkipsBucket ==
  \A e \in user_input_cps_catalog :
    e.new_value = EmptyText =>
      \A d \in Present, f \in ViewFields, mode \in Modes :
        ResolveField(d, f, mode) =
          ResolveIn(cps_catalog_gold,
                    IF HidesNonEmpty(e, mode)
                      THEN user_input_cps_catalog \ BucketOf(e)
                      ELSE user_input_cps_catalog \ {e},
                    d, f, mode)

\* C2 witness: an empty device-scope entry wins over an older non-empty entry
\* of its bucket; the base value is returned, and without the empty entry the
\* older entry's value would be.
C2_Witness ==
  \E e \in user_input_cps_catalog, o \in user_input_cps_catalog :
    /\ e.new_value = EmptyText /\ ~IsGroupScope(e)
    /\ HidesNonEmpty(e, "effective")
    /\ o \in BucketOf(e) /\ o.id < e.id /\ o.new_value # EmptyText
    /\ ResolveField(e.device_uuid, e.field_name, "effective")
         = BaseValue(e.device_uuid, e.field_name)
    /\ ResolveIn(cps_catalog_gold, user_input_cps_catalog \ {e},
                 e.device_uuid, e.field_name, "effective") = o.new_value

\* C3: in mode effective_validated the value returned is the base value or
\* the value of a validated entry that applies to the device and field.
C3_ValidatedModeUsesValidated ==
  \A d \in Present, f \in ViewFields :
    LET r == ResolveField(d, f, "effective_validated") IN
      \/ r = BaseValue(d, f)
      \/ \E u \in user_input_cps_catalog :
           /\ u.is_validated
           /\ u.field_name = f
           /\ u.new_value = r
           /\ IF IsGroupScope(u) THEN u.cps_id = cps_catalog_gold[d]
              ELSE u.device_uuid = d

\* C3 witness: mode effective returns the value of an unvalidated entry and
\* mode effective_validated returns an older validated entry's value.
C3_Witness ==
  \E d \in Present, u \in user_input_cps_catalog, w \in user_input_cps_catalog :
    /\ ~u.is_validated /\ w.is_validated
    /\ u.field_name = "category" /\ w.field_name = "category"
    /\ u.device_uuid = d /\ ~IsGroupScope(u)
    /\ w.changed_at < u.changed_at
    /\ u.new_value # EmptyText /\ w.new_value # EmptyText
    /\ u.new_value # w.new_value
    /\ \A o \in user_input_cps_catalog : o.is_validated => o.new_value # u.new_value
    /\ user_input_cps_catalog = {u, w}
    /\ ResolveField(d, "category", "effective_validated") = w.new_value

\* C4: a non-empty group-scope winner for (G, X) is returned for every device
\* of G whose device-scope bucket for X has no non-empty winner.
C4_GroupPropagation ==
  \A c \in Groups, f \in ViewFields, mode \in Modes :
    \A g \in NonEmptyWinner(GroupBucket(c, f, mode), mode) :
      \A d \in Present :
        (cps_catalog_gold[d] = c /\ NonEmptyWinner(DeviceBucket(d, f, mode), mode) = {})
          => ResolveField(d, f, mode) = g.new_value

\* C4 witness: the entry just appended is the group winner and is returned
\* for a device other than the one it was submitted on.
C4_Witness ==
  \E g \in user_input_cps_catalog, d \in Present :
    /\ result = RetReq("commitOverride", g.id, "Success", g.field_name, g.new_value)
    /\ g \in NonEmptyWinner(GroupBucket(g.cps_id, "category", "effective"), "effective")
    /\ d # g.device_uuid
    /\ cps_catalog_gold[d] = g.cps_id
    /\ ResolveField(d, "category", "effective") = g.new_value
    /\ g.new_value # BaseValue(d, "category")

\* C5: when a base row for a device of group G is added and the log is left
\* alone, the new device resolves X to the non-empty group winner of (G, X),
\* unless its own device bucket has a non-empty winner.
C5_NewDeviceInherits ==
  [][\A d \in Devices, c \in Groups :
       (/\ cps_catalog_gold[d] = NoRow
        /\ cps_catalog_gold'[d] = c
        /\ user_input_cps_catalog' = user_input_cps_catalog)
       => \A f \in ViewFields, mode \in Modes :
            \A g \in NonEmptyWinner(GroupBucket(c, f, mode), mode) :
              NonEmptyWinner(DeviceBucket(d, f, mode), mode) = {}
                => ResolveIn(cps_catalog_gold', user_input_cps_catalog',
                             d, f, mode) = g.new_value]_vars

\* C5 witness: a device has just been added to a group whose winner was
\* appended earlier on another device, and it resolves to that value.
C5_Witness ==
  \E d \in Present, g \in user_input_cps_catalog :
    /\ result.op = "AddDevice"
    /\ g.device_uuid # d
    /\ \A u \in user_input_cps_catalog : u.device_uuid # d
    /\ g \in NonEmptyWinner(GroupBucket(cps_catalog_gold[d], "category", "effective"),
                            "effective")
    /\ g.new_value # BaseValue(d, "category")
    /\ ResolveField(d, "category", "effective") = g.new_value

\* C6: after a successful revert of entry e, ResolveField returns for every
\* device, field and mode what it returns on the previous log without e.
C6_RevertAsNeverExisted ==
  [][\A i \in 1..MaxId :
       (result' = Ret("deleteChange", i, "Success") /\ result' # result)
       => \E e \in user_input_cps_catalog :
            /\ e.id = i
            /\ \A d \in Present, f \in ViewFields, mode \in Modes :
                 ResolveIn(cps_catalog_gold', user_input_cps_catalog', d, f, mode)
                   = ResolveIn(cps_catalog_gold, user_input_cps_catalog \ {e},
                               d, f, mode)]_vars

\* C6 witness: after a successful revert an older override of the same
\* device and field supplies the value.
C6_Witness ==
  \E i \in 1..MaxId, u \in user_input_cps_catalog :
    /\ result = Ret("deleteChange", i, "Success")
    /\ u.id < i
    /\ u \in NonEmptyWinner(DeviceBucket(u.device_uuid, "category", "effective"),
                            "effective")
    /\ ResolveField(u.device_uuid, "category", "effective") = u.new_value

\* C7: a revert of an id in the log returns Success and removes exactly that
\* entry; a revert of an id not in the log returns NotFound and changes
\* nothing; a revert right after a successful revert of the same id returns
\* NotFound.
C7_RevertRemovesExactlyOne ==
  [][\A i \in 1..MaxId :
       (result'.op = "deleteChange" /\ result'.id = i)
       => /\ cps_catalog_gold' = cps_catalog_gold
          /\ nextId' = nextId
          /\ IF \E u \in user_input_cps_catalog : u.id = i
               THEN /\ result'.status = "Success"
                    /\ user_input_cps_catalog' \subseteq user_input_cps_catalog
                    /\ Cardinality(user_input_cps_catalog
                                     \ user_input_cps_catalog') = 1
                    /\ \A u \in user_input_cps_catalog \ user_input_cps_catalog' :
                         u.id = i
               ELSE /\ result'.status = "NotFound"
                    /\ user_input_cps_catalog' = user_input_cps_catalog
          /\ result = Ret("deleteChange", i, "Success")
               => result'.status = "NotFound"]_vars

\* C7 witness: an id that was handed out and reverted is reverted again and
\* the answer is NotFound, while another entry is still in the log.
C7_Witness ==
  \E i \in 1..MaxId :
    /\ result = Ret("deleteChange", i, "NotFound")
    /\ i < nextId
    /\ \A u \in user_input_cps_catalog : u.id # i
    /\ user_input_cps_catalog # {}

\* C8: in each scope bucket the row with rn = 1 is the single entry of
\* greatest rank under (is_validated, changed_at, id) in mode effective and
\* under (changed_at, id) among validated entries in mode
\* effective_validated; a validated entry outranks every unvalidated one.
C8_WinnerIsGreatest ==
  \A f \in ViewFields, mode \in Modes :
    /\ \A d \in Present :
         /\ latest_device(user_input_cps_catalog, mode, d, f)
              = Winners(DeviceBucket(d, f, mode), mode)
         /\ DeviceBucket(d, f, mode) # {}
              => Cardinality(latest_device(user_input_cps_catalog, mode, d, f)) = 1
         /\ \A w \in latest_device(user_input_cps_catalog, "effective", d, f) :
              \A o \in DeviceBucket(d, f, "effective") :
                /\ o.is_validated => w.is_validated
                /\ (o.is_validated = w.is_validated) => o.changed_at <= w.changed_at
                /\ (o.is_validated = w.is_validated /\ o.changed_at = w.changed_at)
                     => o.id <= w.id
    /\ \A c \in Groups :
         /\ latest_cps_id(cps_catalog_gold, user_input_cps_catalog, mode, c, f)
              = Winners(GroupBucket(c, f, mode), mode)
         /\ GroupBucket(c, f, mode) # {}
              => Cardinality(latest_cps_id(cps_catalog_gold, user_input_cps_catalog,
                                           mode, c, f)) = 1

\* C8 witness: a validated entry wins its bucket over an unvalidated entry
\* with a later stamp and a greater id.
C8_Witness ==
  \E w \in user_input_cps_catalog, n \in user_input_cps_catalog :
    /\ {w, n} \subseteq DeviceBucket(w.device_uuid, "category", "effective")
    /\ w.is_validated /\ ~n.is_validated
    /\ n.changed_at > w.changed_at /\ n.id > w.id
    /\ latest_device(user_input_cps_catalog, "effective", w.device_uuid, "category")
         = {w}

\* C10: an append with an unknown or protected field returns InvalidField
\* and one with a value failing the coercion rule returns InvalidValue, both
\* leaving the log and the id counter unchanged; no entry of the log has a
\* protected field.
C10_RejectedAppend ==
  /\ [][result'.op = "commitOverride" =>
          LET f == result'.req.field_name
              v == result'.req.new_value
          IN IF f \notin RegistryFields \/ f \in ProtectedFields
               THEN /\ result'.status = "InvalidField"
                    /\ user_input_cps_catalog' = user_input_cps_catalog
                    /\ nextId' = nextId
               ELSE IF ~CoerceOK(f, v)
                 THEN /\ result'.status = "InvalidValue"
                      /\ user_input_cps_catalog' = user_input_cps_catalog
                      /\ nextId' = nextId
                 ELSE result'.status = "Success"]_vars
  /\ [](\A u \in user_input_cps_catalog : u.field_name \notin ProtectedFields)

\* C10 witness: an append was rejected with InvalidField after ids had been
\* handed out, and the counter still points at the next unused id.
C10_Witness ==
  /\ result = RetReq("commitOverride", 0, "InvalidField", "vendor", OT)
  /\ user_input_cps_catalog # {}
  /\ \A u \in user_input_cps_catalog : u.id < nextId
  /\ \E u \in user_input_cps_catalog : u.id = nextId - 1

\* The candidates of the risk_score column in precedence order: device
\* winner, group winner, base value.
RiskCandidates(d, mode) ==
  <<JoinedValue(Winners(DeviceBucket(d, "risk_score", mode), mode)),
    JoinedValue(Winners(GroupBucket(cps_catalog_gold[d], "risk_score", mode), mode)),
    BaseRiskScore(d)>>

\* The first candidate that is present, non-empty and a number.
FirstNumeric(c) ==
  LET usable(i) == c[i] # NULL /\ c[i] # EmptyText /\ CastNumeric41(c[i]).ok
  IN CastNumeric41(c[CHOOSE i \in 1..3 : usable(i) /\ \A j \in 1..(i - 1) : ~usable(j)])

\* C9: a read of the numeric field in mode effective never fails; an override
\* value that is no number is skipped and the next candidate in precedence
\* (group winner, then base value) supplies the value.
C9_NumericFallsThrough ==
  (selected.status # "none" /\ selected.mode = "effective") =>
    /\ selected.status = "Success"
    /\ selected.tenths = FirstNumeric(RiskCandidates(selected.device_uuid,
                                                     "effective")).tenths

\* C11: a successful append returns an id greater than every id returned
\* by an earlier append, also those of rows deleted since, and adds exactly
\* the row with that id; no two rows of the log share an id.
C11_IdsNeverReused ==
  /\ [][\A e \in user_input_cps_catalog' \ user_input_cps_catalog :
          \A b \in assigned : e.id > b]_vars
  /\ [][(result'.op = "commitOverride" /\ result'.status = "Success"
          /\ result' # result)
        => (/\ \A a \in assigned : result'.id > a
            /\ \E n \in user_input_cps_catalog' :
                 /\ n.id = result'.id
                 /\ n \notin user_input_cps_catalog
                 /\ user_input_cps_catalog' = user_input_cps_catalog \cup {n})]_vars
  /\ [](\A u \in user_input_cps_catalog, w \in user_input_cps_catalog :
          u.id = w.id => u = w)
  /\ [](\A u \in user_input_cps_catalog : u.id \in assigned)

\* C11 witness: an append succeeded after the row with the greatest id had
\* been reverted, and its id is above the reverted one.
C11_Witness ==
  /\ result.op = "commitOverride" /\ result.status = "Success"
  /\ \E a \in assigned :
       /\ a < result.id
       /\ \A u \in user_input_cps_catalog : u.id # a
  /\ \E u \in user_input_cps_catalog : u.id = result.id
  /\ Cardinality(user_input_cps_catalog) = 1

\* C20: when the winner of the device-scope bucket has an empty value, the
\* device bucket contributes nothing, whatever other entries it holds: the
\* value is that of the group-scope winner if it is non-empty and the base
\* value otherwise.
C20_OnlyTheWinnerCounts ==
  \A d \in Present, f \in ViewFields, mode \in Modes :
    \A w \in Winners(DeviceBucket(d, f, mode), mode) :
      w.new_value = EmptyText =>
        LET gw == NonEmptyWinner(GroupBucket(cps_catalog_gold[d], f, mode), mode)
        IN /\ gw = {} => ResolveField(d, f, mode) = BaseValue(d, f)
           /\ \A g \in gw : ResolveField(d, f, mode) = g.new_value

\* C20 witness: a validated entry with an empty value wins the device bucket
\* over a newer unvalidated entry with a non-empty value, and the base value
\* is returned.
C20_Witness ==
  \E w \in user_input_cps_catalog, o \in user_input_cps_catalog :
    /\ {w, o} \subseteq DeviceBucket(w.device_uuid, "category", "effective")
    /\ w \in Winners(DeviceBucket(w.device_uuid, "category", "effective"), "effective")
    /\ w.new_value = EmptyText /\ w.is_validated
    /\ o.new_value # EmptyText /\ ~o.is_validated
    /\ o.changed_at > w.changed_at /\ o.id > w.id
    /\ o.new_value # BaseValue(w.device_uuid, "category")
    /\ ResolveField(w.device_uuid, "category", "effective")
         = BaseValue(w.device_uuid, "category")

ReadsDevice == result'.op = "getDevice" /\ result'.status = "Success"

ReadsVariants == result'.op = "getVariants"

\* C13: a read of a device or of the variants of a group leaves the override
\* log and the base records unchanged, and a read that follows a read of the
\* same device (group) and mode, with no other operation in between, returns
\* the same record (records).
C13_ReadsArePure ==
  /\ [][(ReadsDevice \/ ReadsVariants \/ result'.op = "getDevice")
        => (/\ user_input_cps_catalog' = user_input_cps_catalog
            /\ cps_catalog_gold' = cps_catalog_gold
            /\ nextId' = nextId)]_vars
  /\ [][(/\ ReadsDevice
         /\ result.op = "getDevice" /\ result.status = "Success"
         /\ device'.device_uuid = device.device_uuid
         /\ device'.validated_only = device.validated_only)
        => device'.data = device.data]_vars
  /\ [][(/\ ReadsVariants
         /\ result.op = "getVariants"
         /\ variants'.cps_id = variants.cps_id
         /\ variants'.validated_only = variants.validated_only)
        => variants'.items = variants.items]_vars

\* C13 witness: a device has been read while its bucket held two entries
\* with the same trust flag and the same stamp and different values, and
\* the read returned the value of the one with the greater id.
C13_Witness ==
  /\ result = Ret("getDevice", 0, "Success")
  /\ \E u \in user_input_cps_catalog, w \in user_input_cps_catalog :
       /\ u.id < w.id
       /\ u.device_uuid = device.device_uuid /\ w.device_uuid = device.device_uuid
       /\ ~IsGroupScope(u) /\ ~IsGroupScope(w)
       /\ u.is_validated = w.is_validated /\ u.changed_at = w.changed_at
       /\ u.new_value # w.new_value
       /\ ~device.validated_only
       /\ device.data.category = w.new_value

\* The value the design's precedence gives: the non-empty winner of the
\* device bucket, else the non-empty winner of the group bucket, else the
\* base value.
ExpectedValue(d, f, mode) ==
  LET dw == NonEmptyWinner(DeviceBucket(d, f, mode), mode)
      gw == NonEmptyWinner(GroupBucket(cps_catalog_gold[d], f, mode), mode)
  IN IF dw # {} THEN (CHOOSE u \in dw : TRUE).new_value
     ELSE IF gw # {} THEN (CHOOSE u \in gw : TRUE).new_value
     ELSE BaseValue(d, f)

\* The record the design's precedence gives for the log as it is.
ExpectedRecord(d, validatedOnly) ==
  [device_uuid |-> d, cps_id |-> cps_catalog_gold[d],
   vendor |-> ExpectedValue(d, "vendor", ModeOf(validatedOnly)),
   category |-> ExpectedValue(d, "category", ModeOf(validatedOnly))]

\* C15: every read returns what the precedence rule gives for the log as it
\* is when the read is made: a group-scope entry appended before is seen on
\* every member device, and a reverted entry is seen by no read.
C15_ReadsSeeCommittedWrites ==
  /\ [][ReadsDevice =>
          device'.data = ExpectedRecord(device'.device_uuid,
                                        device'.validated_only)]_vars
  /\ [][ReadsVariants =>
          variants'.items =
            {ExpectedRecord(d, variants'.validated_only) :
               d \in {m \in Present : cps_catalog_gold[m] = variants'.cps_id}}]_vars

\* C15 witness: device d2 is read after a group-scope entry was appended on
\* d1 and another entry was reverted; the read returns the group value.
C15_Witness ==
  /\ result = Ret("getDevice", 0, "Success")
  /\ device.device_uuid = "d2"
  /\ Cardinality(assigned) = 2
  /\ \E g \in user_input_cps_catalog :
       /\ user_input_cps_catalog = {g}
       /\ IsGroupScope(g) /\ g.device_uuid = "d1"
       /\ device.data.category = g.new_value
       /\ g.new_value # BaseValue("d2", "category")

\* C18: a FieldEditor of a non-editable field never submits: under user
\* events and prop updates its value equals originalValue, hasChanged is
\* false, it is never saving, and no commitOverride call and no log entry
\* names a non-editable field.
C18_NonEditableNeverSubmits ==
  /\ [](\A s \in Sessions :
          (editors[s].pc # "unmounted"
           /\ editors[s].fieldName \in NON_EDITABLE_FIELDS)
          => (/\ editors[s].value = editors[s].originalValue
              /\ ~hasChanged(editors[s])
              /\ editors[s].pc = "idle"
              /\ ~editors[s].isSaving))
  /\ [][result'.op = "commitOverride"
        => result'.req.field_name \notin NON_EDITABLE_FIELDS]_vars
  /\ [](\A u \in user_input_cps_catalog :
          u.field_name \notin NON_EDITABLE_FIELDS)

\* C18 witness: the FieldEditor of vendor has been rendered with another
\* currentValue, and value and originalValue have followed it.
C18_Witness ==
  \E s \in Sessions :
    /\ editors[s].fieldName = "vendor"
    /\ editors[s].currentValue = OT
    /\ editors[s].value = OT /\ editors[s].originalValue = OT

\* The entry that the answer to the last POST of session s describes.
SavedBy(s) ==
  {u \in user_input_cps_catalog :
     /\ u.id = editors[s].response.id
     /\ u.device_uuid = editors[s].deviceUuid
     /\ u.field_name = editors[s].response.req.field_name
     /\ u.new_value = editors[s].response.req.new_value}

\* C14: when two editors have saved the same field of the same device,
\* however their requests overlapped, the log holds the entry of each under
\* its own id, and every field resolves to what the precedence rule and the
\* order (is_validated, changed_at, id) give for the log as it is.
C14_ConcurrentAppendsBothKept ==
  /\ \A s \in Sessions, t \in Sessions :
       (/\ s # t
        /\ editors[s].response.status = "Success"
        /\ editors[t].response.status = "Success")
       => (/\ editors[s].response.id # editors[t].response.id
           /\ SavedBy(s) # {}
           /\ SavedBy(t) # {})
  /\ \A d \in Present, f \in ViewFields, mode \in Modes :
       ResolveField(d, f, mode) = ExpectedValue(d, f, mode)

\* C14 witness: both requests were on their way at once (each answer is
\* still on its way back), the server handled the second session's first,
\* and both entries are in the log with different values.
C14_Witness ==
  /\ editors["s1"].pc = "answered" /\ editors["s2"].pc = "answered"
  /\ editors["s1"].response.status = "Success"
  /\ editors["s2"].response.status = "Success"
  /\ editors["s2"].response.id < editors["s1"].response.id
  /\ editors["s1"].request.new_value # editors["s2"].request.new_value
  /\ editors["s1"].request.apply_for_all = editors["s2"].request.apply_for_all
  /\ SavedBy("s1") # {} /\ SavedBy("s2") # {}

\* The log entries that satisfy every active filter.
Matching ==
  {u \in user_input_cps_catalog : PassesFilters(ChangeRow(u), dateRange, filters)}

\* C16: once the page has loaded, the list it shows holds at most the limit
\* of entries, and they are the first of the matching entries of the whole
\* log, newest first: a matching entry is missing only when as many
\* matching entries as the limit rank before it.
C16_FilterBeforeTruncate ==
  Len(allChanges) > 0
    => LET matches == NewestFirst(Matching) IN
         changes = slice([i \in 1..Len(matches) |-> ChangeRow(matches[i])],
                         DisplayLimit)

\* The calendar days of the trailing window.
Window == (Today - WindowDays + 1)..Today

\* C17: the series of a loaded device has one element for each day of the
\* trailing window and no other: as many elements as days, no day twice, and
\* for every day of the window an element whose count is the number of the
\* device's log entries changed on that day, 0 when there is none.
C17_DenseSeries ==
  device.device_uuid # NoRow
    => /\ Len(changesOverTime) = WindowDays
       /\ \A i \in 1..Len(changesOverTime), j \in 1..Len(changesOverTime) :
            i # j => changesOverTime[i].date # changesOverTime[j].date
       /\ \A day \in Window :
            \E i \in 1..Len(changesOverTime) :
              /\ changesOverTime[i].date = day
              /\ changesOverTime[i].count =
                   Cardinality({u \in user_input_cps_catalog :
                                  /\ u.device_uuid = device.device_uuid
                                  /\ u.changed_at = day})

\* C17 witness: the device has an entry before the window and one on its
\* first day, the other device has an entry today, and the series shows
\* count 1 for the first day and count 0 for today.
C17_Witness ==
  /\ device.device_uuid = "d1"
  /\ \E u \in user_input_cps_catalog :
       u.device_uuid = "d1" /\ u.changed_at \notin Window
  /\ \E u \in user_input_cps_catalog :
       u.device_uuid = "d2" /\ u.changed_at = Today
  /\ \E i \in 1..Len(changesOverTime) :
       changesOverTime[i].count = 1 /\ changesOverTime[i].date = 2
  /\ \E i \in 1..Len(changesOverTime) :
       changesOverTime[i].count = 0 /\ changesOverTime[i].date = Today

\* C19: when the device-scope winner's value is empty after trimming, the
\* record read for the device shows the group-scope winner's value, and
\* when that is empty after trimming too, or there is none, the base value.
C19_WhitespaceIsAbsent ==
  \A f \in ViewFields :
    \A w \in Winners(DeviceBucket(device.device_uuid, f, ModeOf(device.validated_only)),
                      ModeOf(device.validated_only)) :
      (device.device_uuid # NoRow /\ Trim(w.new_value) = EmptyText)
      => LET gw == {g \in Winners(GroupBucket(cps_catalog_gold[device.device_uuid], f,
                                              ModeOf(device.validated_only)),
                                  ModeOf(device.validated_only)) :
                      Trim(g.new_value) # EmptyText}
         IN device.data[f] = IF gw # {} THEN (CHOOSE g \in gw : TRUE).new_value
                             ELSE BaseValue(device.device_uuid, f)

\* The log without its unvalidated entries.
ValidatedSubLog == {u \in user_input_cps_catalog : u.is_validated}

\* C21: for every device and field, the validated view over the log returns
\* what the effective view returns over the log without its unvalidated
\* entries.
C21_ValidatedIsEffectiveOnSubLog ==
  \A d \in Present, f \in ViewFields :
    ResolveIn(cps_catalog_gold, user_input_cps_catalog, d, f, "effective_validated")
      = ResolveIn(cps_catalog_gold, ValidatedSubLog, d, f, "effective")

\* C21 witness: two validated entries of one bucket carry different
\* non-blank values, so the order among validated entries decides.
C21_Witness ==
  \E a \in ValidatedSubLog, b \in ValidatedSubLog :
    /\ a.id # b.id
    /\ a.device_uuid = b.device_uuid /\ a.field_name = b.field_name
    /\ a.apply_for_all = b.apply_for_all
    /\ a.new_value # b.new_value
    /\ a.new_value # EmptyText /\ b.new_value # EmptyText
    /\ a.field_name \in ViewFields

\* The scope buckets as the CTEs partition the rows of the log, before the
\* condition on is_validated: by device and field, and by the cps_id of the
\* submitting device's base row and field.
DevicePartition(d, f) ==
  {u \in DeviceRows(user_input_cps_catalog) :
     u.device_uuid = d /\ u.field_name = f}

GroupPartition(c, f) ==
  {u \in GroupRows(user_input_cps_catalog) :
     /\ cps_catalog_gold[u.device_uuid] # NoRow
     /\ cps_catalog_gold[u.device_uuid] = c
     /\ u.field_name = f}

AllPartitions(d, f) == {DevicePartition(d, f), GroupPartition(cps_catalog_gold[d], f)}

\* C29: a bucket that holds a validated entry has the same winner in both
\* modes, and a field resolves differently in the two modes only when one of
\* its buckets holds unvalidated entries and no validated one.
C29_ModesAgreeOnValidatedBuckets ==
  \A d \in Present, f \in ViewFields :
    /\ \A B \in AllPartitions(d, f) :
         (\E u \in B : u.is_validated)
         => Rn1("effective", ModeFilter("effective", B))
              = Rn1("effective_validated", ModeFilter("effective_validated", B))
    /\ ResolveField(d, f, "effective") # ResolveField(d, f, "effective_validated")
         => \E B \in AllPartitions(d, f) :
              B # {} /\ \A u \in B : ~u.is_validated

\* C29 witness: a bucket holds a validated entry and a newer unvalidated
\* one with another value.
C29_Witness ==
  \E d \in Present, f \in ViewFields : \E B \in AllPartitions(d, f) :
    \E a \in B, b \in B :
      /\ a.is_validated /\ ~b.is_validated
      /\ b.changed_at > a.changed_at
      /\ a.new_value # b.new_value
      /\ a.new_value # EmptyText /\ b.new_value # EmptyText

\* The entries a step adds to the log or removes from it.
Touched ==
  (user_input_cps_catalog' \ user_input_cps_catalog)
    \cup (user_input_cps_catalog \ user_input_cps_catalog')

\* ResolveField of (d, f) is the same before and after the step.
SameRead(d, f) ==
  \A mode \in Modes :
    ResolveIn(cps_catalog_gold', user_input_cps_catalog', d, f, mode)
      = ResolveField(d, f, mode)

\* C28: a step that appends or reverts a device-scope entry of (d, f), the
\* scope flag cleared or unset, leaves ResolveField of every other device
\* and of every other field as it was; a step that appends or reverts a
\* group-scope entry of (G, f) leaves ResolveField of every device outside
\* G and of every other field as it was; an entry whose scope flag is unset
\* is in the device rows and not in the group rows.
C28_WriteStaysInScope ==
  /\ [][\A e \in Touched : \A d \in Present, f \in ViewFields :
          (/\ e.apply_for_all # "TRUE"
           /\ (d # e.device_uuid \/ f # e.field_name))
          => SameRead(d, f)]_vars
  /\ [][\A e \in Touched : \A d \in Present, f \in ViewFields :
          (/\ e.apply_for_all = "TRUE"
           /\ (cps_catalog_gold[d] # e.cps_id \/ f # e.field_name))
          => SameRead(d, f)]_vars
  /\ [](\A u \in user_input_cps_catalog :
          u.apply_for_all = "NULL"
          => /\ u \in DeviceRows(user_input_cps_catalog)
             /\ u \notin GroupRows(user_input_cps_catalog)
             /\ \A d \in Devices, c \in Groups, f \in ViewFields, mode \in Modes :
                  /\ u \notin latest_cps_id(cps_catalog_gold, user_input_cps_catalog,
                                            mode, c, f)
                  /\ u \in latest_device(user_input_cps_catalog, mode, d, f)
                       => d = u.device_uuid /\ f = u.field_name)

\* C28 witness: the devices are in two groups, the log holds an entry with
\* the scope flag unset on d1, and the last request appended a group-scope
\* entry on d1, which d2 of the other group does not see.
C28_Witness ==
  /\ cps_catalog_gold["d1"] = "g1" /\ cps_catalog_gold["d2"] = "g2"
  /\ \E u \in user_input_cps_catalog :
       u.apply_for_all = "NULL" /\ u.device_uuid = "d1" /\ u.field_name = "category"
  /\ result.op = "commitOverride" /\ result.status = "Success"
  /\ \E u \in user_input_cps_catalog :
       /\ u.id = result.id /\ u.apply_for_all = "TRUE"
       /\ u.device_uuid = "d1" /\ u.new_value = IoT
  /\ ResolveField("d2", "category", "effective") = BaseValue("d2", "category")

\* Session s finishes a save attempt in this step.
SaveEnds(s) == editors[s].pc = "answered" /\ editors'[s].pc = "idle"

\* C25: every save attempt ends with isSaving false; after an answer that is
\* not a success, or a throw, originalValue is what it was, error is set,
\* success is false, onSave has not been called and the edit is still
\* pending with Save and Cancel enabled; after a success originalValue is
\* the saved value and onSave has been called with it.
C25_SaveOutcomes ==
  /\ [][\A s \in Sessions : SaveEnds(s) => ~editors'[s].isSaving]_vars
  /\ [][\A s \in Sessions :
          (SaveEnds(s) /\ editors[s].response.status # "Success")
          => (/\ editors'[s].originalValue = editors[s].originalValue
              /\ editors'[s].error # NoError
              /\ ~editors'[s].success
              /\ editors'[s].onSave = NoCall
              /\ hasChanged(editors'[s])
              /\ ~isReadOnly(editors'[s]))]_vars
  /\ [][\A s \in Sessions :
          (SaveEnds(s) /\ editors[s].response.status = "Success")
          => (/\ editors'[s].originalValue = editors[s].value
              /\ editors'[s].success
              /\ editors'[s].error = NoError
              /\ editors'[s].onSave = [fieldName |-> editors[s].fieldName,
                                       value |-> editors[s].value])]_vars
  /\ [](\A s \in Sessions : editors[s].pc = "idle" => ~editors[s].isSaving)

\* C25 witness: a save was rejected by the server, the edit is still
\* pending, and an earlier save had succeeded.
C25_Witness ==
  /\ editors["s1"].pc = "idle"
  /\ editors["s1"].error = "InvalidValue"
  /\ editors["s1"].value = NotAnOption
  /\ editors["s1"].originalValue = OT
  /\ \E u \in user_input_cps_catalog : u.new_value = OT

\* A timer calls loadData in this step.
TimerLoads ==
  /\ dashboard'.lastLoad.flip # dashboard.lastLoad.flip
  /\ dashboard'.lastLoad.source = "timer"

\* C27: a change of search_term loads nothing by itself; a timer loads only
\* when 300 ms have passed since search_term last changed, with the value
\* typed last, and leaves no timer pending; at most one timer is pending at
\* any time, and timers make at most one load after a change.
C27_DebouncedSearch ==
  /\ [][dashboard'.filters.search_term # dashboard.filters.search_term
          => dashboard'.lastLoad = dashboard.lastLoad]_vars
  /\ [][TimerLoads
          => (/\ dashboard.sinceChange >= Debounce
              /\ dashboard'.lastLoad.filters.search_term
                   = dashboard.filters.search_term
              /\ dashboard'.timers = {})]_vars
  /\ [](Cardinality(dashboard.timers) <= 1)
  /\ [](dashboard.burstLoads <= 1)

\* C27 witness: a timer has made the one load since search_term became
\* "ab", with "ab", and no timer is pending.
C27_Witness ==
  /\ dashboard.lastLoad.source = "timer"
  /\ dashboard.lastLoad.filters.search_term = <<"a", "b">>
  /\ dashboard.burstLoads = 1
  /\ dashboard.timers = {}

\* C30: when no load is on its way and the page has shown a device, the
\* device shown is the one returned for the device id and the validatedOnly
\* setting the page has now.
C30_LastLoadWins ==
  (details.pc = "mounted" /\ details.loads = {} /\ device.device_uuid # NoRow)
    => /\ device.device_uuid = details.deviceUuid
       /\ device.validated_only = details.validatedOnly

\* Each row has a field that is not blank.
RECURSIVE NoBlankRow(_, _)
NoBlankRow(kind, items) ==
  \/ items = <<>>
  \/ /\ \/ trim(Head(items)[Keys(kind)[1]]) # EmptyText
        \/ trim(Head(items)[Keys(kind)[2]]) # EmptyText
     /\ NoBlankRow(kind, Tail(items))

\* C22: for the rows of a table in which each row has a field that is not
\* blank, parseValue of the JSON text that handleSave writes for them gives
\* the same rows in the same order, in the CVE table and in the patch table.
C22_StructuredListRoundTrip ==
  /\ (table.pc # "unmounted" /\ NoBlankRow(table.kind, table.items))
       => parseValue(table.kind,
                     stringify(table.kind, keptItems(table.kind, table.items)))
            = table.items
  /\ (table.pc \in {"posting", "answered", "loading"}
        /\ NoBlankRow(table.kind, table.sent))
       => parseValue(table.kind, table.valueToSave) = table.sent

\* A save of two rows with a quote and a backslash in one of them has
\* succeeded and the rows shown are the rows that were saved.
C22_Witness ==
  /\ table.pc = "loading" /\ table.success
  /\ Len(table.sent) = 2
  /\ \E i \in 1..2 : table.sent[i][Keys(table.kind)[1]] = <<Quote, Backslash>>
  /\ \E i \in 1..2 : table.sent[i][Keys(table.kind)[1]] = <<" ">>
  /\ NoBlankRow(table.kind, table.sent)
  /\ table.items = table.sent

\* C23: after a save of a table from which every row was removed, the
\* field's effective value for the device is the one it has without the
\* entry of that save: the winner of the group or the value of the gold
\* table.
C23_EmptyTableFallsThrough ==
  (table.pc \in {"answered", "loading", "idle"} /\ table.response.status = "Success"
     /\ table.sent = <<>>)
    => ViewColumn(cps_catalog_gold, user_input_cps_catalog, "effective",
                  table.deviceUuid, FieldOf(table.kind))
         = ViewColumn(cps_catalog_gold,
                      {u \in user_input_cps_catalog : u.id # table.response.id},
                      "effective", table.deviceUuid, FieldOf(table.kind))

\* The server has answered the DELETE of client s.
Answered(s) ==
  /\ revert[s].pc \in {"answered", "reloading"}
  /\ revert[s].response.status \in {"Success", "NotFound"}

\* C24: when two clients call Revert on the same id of an entry of the log
\* and neither call has returned, the one served first is answered Success
\* and the other NotFound, so exactly one succeeds; the log then has no
\* entry with that id, and a delete removes nothing but the entry with its
\* id.
C24_ConcurrentRevertOneWins ==
  /\ [](\A s, t \in Sessions :
          (s # t /\ Answered(s) /\ Answered(t)
             /\ revert[s].response.id = revert[t].response.id
             /\ revert[s].response.status = "Success")
            => /\ {revert[s].response.status, revert[t].response.status}
                    = {"Success", "NotFound"}
               /\ \A u \in user_input_cps_catalog :
                    u.id # revert[s].response.id)
  /\ [][\A s \in Sessions :
          (revert[s].pc = "deleting" /\ revert'[s].pc = "answered"
             /\ revert'[s].response.status \in {"Success", "NotFound"})
            => /\ user_input_cps_catalog' =
                    {u \in user_input_cps_catalog :
                       u.id # revert[s].changeToRevert.id}
               /\ (revert'[s].response.status = "NotFound"
                     <=> \A u \in user_input_cps_catalog :
                           u.id # revert[s].changeToRevert.id)]_vars

\* Both clients asked for the same entry while another entry was in the log,
\* both calls are still out, one was answered Success and the other
\* NotFound, and the other entry is still there.
C24_Witness ==
  /\ revert["s1"].pc = "answered" /\ revert["s2"].pc = "answered"
  /\ revert["s1"].reverting /\ revert["s2"].reverting
  /\ revert["s1"].response.id = revert["s2"].response.id
  /\ revert["s1"].response.status = "NotFound"
  /\ revert["s2"].response.status = "Success"
  /\ user_input_cps_catalog # {}

====
